---------------------------- MODULE Spec2Model ----------------------------
(***************************************************************************)
(* A model of Data/generate_input.py (LargeScaleInputGenerator): the       *)
(* seeded generation of a scheduling instance (courses, instructors,       *)
(* classrooms, students), the feasibility checks and the assembly of the   *)
(* instance document.                                                      *)
(*                                                                         *)
(* Conventions.                                                            *)
(*  - weekly_hours and every quantity of hours is held in HALF-HOURS       *)
(*    (1.5 h = 3, 3.0 h = 6), so hours * 2 (periods) is the number itself  *)
(*    and available_periods * 0.5 (hours) is available_periods half-hours. *)
(*  - Probabilities and weights are held in percent.                       *)
(*  - Python's module-level random generator is one state variable, rng.   *)
(*    The generator is the Mersenne Twister MT19937; its output after      *)
(*    random.seed(a) is tabulated (MT19937) for the seeds of the model,    *)
(*    and a generator state is the seed of the stream together with the    *)
(*    number of 32-bit words drawn from it.  Every library call consumes   *)
(*    the words CPython 3.11 consumes, in the code's order.                *)
(***************************************************************************)
EXTENDS Integers, Sequences, FiniteSets, TLC

VARIABLES
    rng,          \* state of the process-wide `random` module
    clock,        \* the last reading of the local wall clock by datetime.now()
    seedOf,       \* generator object -> the seed it was constructed with (NoSeed: not constructed)
    lastOp,       \* the last operation performed in the process
    pc,           \* position inside the running call
    call,         \* the running call: generator, function, whether it directly follows its construction
    args,         \* arguments of generate_complete_input
    courses,      \* local: courses
    instructors,  \* local: instructors
    classrooms,   \* local: classrooms
    students,     \* local: students
    printed,      \* the warnings generate_classrooms printed (enrollments above the largest room)
    chk,          \* locals of _check_feasibility (issues and the sums it computes)
    stats,        \* locals of generate_complete_input computed after the checks
    error,        \* the exception that ended the call ("none" while there is none)
    docs,         \* the instance documents returned so far, one entry per completed run
    frame         \* locals of the loop a call is followed through, one iteration a step

vars == <<rng, clock, seedOf, lastOp, pc, call, args, courses, instructors,
          classrooms, students, printed, chk, stats, error, docs, frame>>

-----------------------------------------------------------------------------
(* Bounds of the model *)

MaxSeed == 9
MaxCourses == 3
MaxInstructors == 2
MaxRooms == 4
MaxStudents == 2
MaxClock == 1

-----------------------------------------------------------------------------
(* The random module *)

\* The outputs of MT19937 after random.seed(42), the default of --seed, each
\* shifted right by 5, as far as the scenarios of generate_multiple_scenarios
\* draw: MT19937_42[c + 1] holds the outputs 50 * c + 1 to 50 * c + 50.
MT19937_42 ==
    <<
       << 85822412, 14942603, 3356886, 99529223, 36913810, 32868828, 29958838, 18728463, 98847493, 13756669, 90825067, 99410741, 119746314, 73197857, 11668732, 79254563, 56629388, 4265799, 3999315, 12575562, 29345092, 31227216, 67827638, 80801586, 3561597, 75329037, 26687537, 96102525, 87226012, 94130244, 73140807, 56306997, 29587039, 60291817, 79089901, 37338124, 108639916, 116675514, 872248, 101845400, 108155229, 21429110, 93702683, 56722344, 45667651, 37295260, 20868105, 28898923, 128474963, 102474447 >>,
       << 45176955, 13718431, 12448136, 50992979, 12981052, 48181396, 113748768, 46164955, 81030736, 35503389, 108330923, 5831819, 97942942, 61662963, 71971316, 16753883, 130609386, 123788389, 50806024, 10576383, 74093639, 39349722, 111320809, 84374605, 83016315, 118843321, 115656342, 48537831, 77490893, 25808537, 94566031, 9335534, 6150444, 88753260, 30587988, 103759476, 38840994, 132234194, 10709497, 114798801, 31244663, 116297469, 13556182, 51019678, 37308985, 60855700, 85320121, 111952406, 48966946, 21831063 >>,
       << 49684848, 47683626, 28119557, 89949389, 35833156, 94196727, 125715650, 91744214, 86977837, 9583482, 81756179, 85225343, 22969840, 71691040, 97861742, 32857966, 21931511, 62043515, 50929647, 36231783, 132811575, 124203901, 85899313, 92363534, 74752529, 29476249, 91887369, 43524491, 113125669, 103121302, 104152945, 7507864, 30742311, 110300477, 4308421, 108051418, 42339391, 53843426, 35935572, 8883684, 28317637, 122559055, 126555199, 76125617, 117624071, 96356822, 42235350, 28538251, 87971488, 67005685 >>,
       << 53100814, 118740162, 122748499, 86282117, 61586053, 19175900, 35551614, 18740864, 33101783, 99990728, 75345555, 72340307, 35264581, 100262496, 78461803, 57503414, 120503747, 78320463, 53606628, 48586340, 29436733, 133858799, 133887231, 18566572, 68387461, 66238574, 12201654, 101439364, 6323852, 115575276, 14716857, 20514014, 84214382, 21472420, 106311092, 91332642, 56661351, 80048665, 8526544, 51642594, 51220073, 79978790, 133697148, 62820592, 71016525, 33744231, 130335933, 74252722, 115531895, 126490929 >>,
       << 1540956, 91306093, 96733645, 15374874, 91497616, 118754295, 72070937, 100781112, 35812670, 103159575, 86028436, 45657579, 14972279, 39392920, 58353204, 21227574, 60897765, 435578, 128019006, 96917555, 117554991, 96593904, 35351479, 130444612, 67187530, 102268835, 23978249, 68139880, 122490835, 14282218, 116839024, 83926371, 40056581, 112966947, 85758349, 68137358, 81734598, 26697396, 20513739, 50185867, 102342467, 21682744, 72394227, 127976569, 104505476, 123807006, 71182864, 123278110, 76758, 80388981 >>,
       << 43507489, 65579548, 2614124, 15014631, 124701505, 48718453, 117940053, 132247596, 111624257, 108283481, 41273847, 32138745, 7774584, 32329237, 117844453, 76149359, 127097403, 10570592, 11496211, 98234974, 65228535, 109524787, 9289546, 131262856, 102086294, 71498611, 102788557, 16879290, 17232410, 88550256, 63791320, 127083878, 73793389, 22162965, 35575298, 70823176, 117095980, 81415657, 56792612, 129434598, 28427073, 124676658, 72383095, 101369978, 97969689, 92592466, 26998038, 95690391, 41837852, 53551839 >>,
       << 133566685, 90152297, 87225156, 50119651, 58800797, 120744158, 69467853, 60597444, 16240908, 33273328, 30158366, 8593410, 45377076, 2823170, 78961459, 74346088, 30885476, 78979095, 29557077, 965138, 9528530, 95004803, 84705205, 7901903, 30728046, 9046318, 121523417, 4216175, 115378310, 44349361, 9510312, 69008866, 31944441, 37376585, 89788677, 65151231, 28754377, 72374753, 17758595, 97086737, 125562595, 118431451, 76644106, 77337818, 63440831, 32614537, 105309836, 63481353, 108380412, 54634663 >>,
       << 25556386, 12660194, 13009833, 88447167, 57854710, 47553014, 56851760, 55177213, 62682989, 115942205, 97854904, 7270733, 90377459, 87705310, 132092418, 86728778, 13209423, 8135295, 54038913, 97739173, 45540424, 107453707, 115651730, 14665841, 33374088, 25714784, 25529407, 71979055, 60211891, 18814949, 56623995, 24627347, 37385696, 62092888, 33528453, 117371517, 123918611, 10117988, 59476001, 108450909, 115608319, 114885931, 73863413, 13141087, 6789850, 87529405, 134121422, 72556484, 112209723, 1980765 >>,
       << 130056476, 12517517, 124334871, 101141849, 113910013, 31726318, 22321899, 54547971, 65181648, 64606833, 28688676, 116051411, 53826716, 121123831, 7869910, 22097220, 50864911, 289289, 132245914, 52401521, 35594951, 124355150, 105236174, 105378278, 61070189, 38285503, 56775103, 93494928, 128488998, 98046763, 133603371, 105141004, 74593961, 88834863, 96423126, 65319931, 20776478, 25487660, 39823450, 29219319, 130017970, 7849494, 77736262, 98748972, 72772208, 8181586, 100391580, 42091325, 7672593, 6729990 >>,
       << 78406989, 63993471, 67491435, 123398051, 114450126, 71286543, 21130263, 7634247, 128953561, 68159587, 10752378, 114265262, 24941004, 9196777, 79864260, 9121552, 90625494, 115671415, 31568532, 54193837, 16090908, 126378892, 119492340, 76460539, 33046464, 77701200, 79795010, 5334035, 83131979, 11003626, 56267415, 88231132, 78339168, 75863473, 70166708, 42462441, 125454150, 34999379, 27415205, 89889098, 96125636, 42169044, 32035886, 35650176, 53121477, 17566185, 90152735, 86637649, 40264926, 61367643 >>,
       << 42436584, 124690729, 100913543, 125592130, 9736572, 1250299, 61510041, 83370583, 134010286, 75563727, 133693802, 13419256, 9832887, 72160068, 28609087, 67898694, 35594597, 17778019, 125259953, 46843172, 118227588, 9233013, 118013654, 32787299, 49597086, 38250360, 21172421, 58812137, 111903353, 72909480, 94427530, 40603163, 82097999, 132050555, 132504178, 108327120, 87775215, 70993218, 1049999, 89639081, 109669860, 74437458, 40181935, 125058178, 89038526, 13903144, 126021051, 117860206, 18024248, 35496015 >>,
       << 15492573, 119415218, 14366125, 99645480, 74252420, 20863865, 36553958, 37816686, 81178885, 28270233, 96316277, 46020613, 27326368, 92274302, 85125977, 114476020, 35431319, 67834855, 65569635, 33704923, 121512206, 121891043, 113562118, 6818112, 12388090, 85132217, 56851377, 111313216, 37135391, 5917225, 475894, 44769200, 103497870, 17558317, 85511909, 131506255, 35159040, 21687165, 99486328, 59302158, 74045292, 94713081, 57403166, 75283645, 1297845, 15015458, 10099059, 126842589, 118528533, 92747083 >>,
       << 121323239, 20005727, 73227889, 4835614, 112017447, 49555330, 78183110, 74158663, 19876811, 57684996, 17105448, 5614174, 41373735, 48942697, 120659252, 125236952, 106853726, 130485973, 115521545, 5354599, 120651622, 48024342, 28195995, 91545441, 33491314, 89514287, 13796726, 47469942, 104705429, 75146293, 118666550, 117401954, 54543049, 130706192, 83303777, 100593182, 20743797, 124253916, 124806517, 31774346, 116045412, 21810617, 131024155, 107359019, 108819938, 23763566, 118301680, 55337219, 3326769, 24073380 >>,
       << 98860009, 124082584, 44585178, 105010137, 124931993, 55259205, 107674177, 89913412, 115972710, 98657752, 108816931, 33308443, 35810056, 21367172, 105679617, 94123965, 14508349, 51343880, 117060244, 5197528, 115238435, 63174945, 29854548, 26786211, 109600398, 123272527, 61780854, 46930359, 40962024, 110130528, 106749465, 116946998, 30547349, 29920292, 3176186, 88588154, 25921441, 53481198, 44058573, 37393469, 116011488, 9317495, 129773658, 103794144, 37463522, 47130035, 86098221, 68371272, 53643924, 91203377 >>,
       << 131687681, 113234284, 71969657, 44446182, 126062275, 3704481, 15480907, 117714102, 130244965, 35059710, 23966966, 77925434, 129189168, 132009923, 35630292, 5134794, 14549543, 80070438, 58326160, 46397338, 97783662, 105552603, 42101056, 58571795, 81363974, 132101899, 68642041, 15521714, 51700055, 120729481, 77388337, 25511941, 34188276, 5957459, 95131550, 58526649, 226999, 69782527, 124228595, 108248056, 72269803, 92188405, 96560259, 126199979, 99582853, 98923524, 90010234, 26445607, 48884978, 57887757 >>,
       << 9391725, 127355777, 89152472, 123583772, 44318698, 83638503, 42133044, 89038359, 113818684, 16726926, 96603781, 120802241, 40308572, 68064830, 41511484, 89508850, 54813568, 43779528, 54009265, 93577729, 39682169, 74411983, 17084279, 25748341, 56431351, 89245317, 126213475, 50888017, 90908075, 100412920, 121172509, 23357554, 82613013, 76384014, 40392808, 54502486, 73542887, 111900698, 54484, 40785405, 38508907, 28210242, 57698610, 105462764, 77844239, 81424737, 87873101, 43251559, 62409658, 59295515 >>,
       << 59345683, 90681152, 28682516, 68608612, 63509974, 106533361, 120954442, 128826470, 106840634, 98779073, 22775593, 88429450, 11381064, 38089166, 69182797, 89100953, 84951883, 83115778, 44988206, 12534217, 109846937, 127775231, 100816054, 31523529, 90301106, 41663795, 30150759, 108255039, 26726767, 19777514, 3278320, 6202700, 32862209, 132061657, 63771720, 82043803, 114049862, 103144893, 9774839, 61124923, 55625330, 118935282, 84525678, 77265240, 26096655, 96414756, 93463085, 51536717, 66354180, 53640499 >>,
       << 32747037, 19806690, 88054615, 92291118, 744212, 119810773, 100792745, 115486377, 103353849, 118845128, 14305904, 104477818, 57062156, 29372360, 23607110, 107925797, 128576025, 93403697, 69519112, 62350830, 6740197, 74813739, 33446826, 123140740, 113861777, 16288475, 61265269, 17896471, 107564315, 62363359, 89600766, 71287314, 132592680, 75017682, 79920257, 42587010, 127512157, 101367940, 119645162, 59401199, 82228802, 109388321, 96539316, 119724937, 67750178, 57276174, 111477106, 121715981, 73534128, 59849511 >>,
       << 120421233, 21361812, 99811743, 115627889, 63709724, 60407340, 34788100, 100901772, 33183955, 112724488, 85585469, 37220099, 102785772, 104377749, 69967676, 65041510, 84120751, 32111036, 36855845, 59038700, 10399639, 95770370, 38349783, 31473195, 36468984, 45076693, 42910691, 119860032, 72498004, 10814950, 18572252, 20244148, 31039390, 51410126, 93140367, 20509175, 94813972, 28716269, 8620650, 55682626, 54707061, 44410148, 72828034, 62535301, 55804273, 8357162, 27760841, 111788760, 56390708, 52274692 >>,
       << 121445364, 103320239, 78393811, 126978296, 93351515, 2621534, 114988626, 118199737, 102756364, 77267850, 51053877, 64019136, 791358, 126532643, 47212267, 40079111, 101129719, 52343121, 114547844, 119674101, 127967253, 112169603, 56240084, 72238741, 100329854, 98600914, 73300637, 107356488, 80967191, 120502199, 29600202, 65529051, 29450273, 36632757, 58496914, 65181765, 3895645, 52191530, 45114543, 89774697, 91152880, 107124849, 54266464, 97197979, 22151928, 112810760, 62732043, 123418787, 17129912, 131630275 >>,
       << 83517915, 71688860, 3619375, 121725931, 52884503, 79442503, 75751409, 88986321, 3637575, 11267237, 86268397, 57527432, 18213276, 116346819, 61968116, 24391257, 6749089, 34917589, 50882459, 43936531, 28408562, 61028710, 43868501, 45298556, 102170521, 118063280, 50885459, 37346970, 100933049, 127668455, 111658987, 56581473, 33859311, 112059846, 10993268, 63123515, 2601580, 100532334, 72399599, 6990811, 134205356, 127764498, 46970882, 30094589, 87260863, 9209801, 104855324, 128484698, 87477029, 5403355 >>,
       << 101231467, 4164775, 127454729, 33189803, 26757737, 112639389, 2735359, 83394260, 20452412, 32016960, 16941092, 63560289, 89853245, 15353091, 75694715, 127205794, 29254705, 62415804, 93880599, 34392446, 102931320, 49512272, 22520277, 81321540, 81503378, 129350287, 100384881, 96416275, 15372341, 104393459, 109964742, 21980274, 129482630, 41746937, 14508768, 77669750, 3446499, 124673125, 41870192, 77282128, 90912013, 121873206, 128603781, 50372847, 53238057, 126362044, 95967649, 26619372, 10200074, 79470029 >>,
       << 92692697, 111477437, 84187049, 32594692, 13676961, 93575660, 103680629, 40477742, 114124426, 91839693, 80585882, 108116133, 16247735, 106867807, 132049353, 75958181, 105043538, 5512205, 46600900, 71503856, 57495923, 88787891, 49737181, 9255216, 67908907, 86911784, 45799273, 1698142, 114028110, 56379329, 110371387, 65793759, 14165187, 58186525, 128954724, 48612055, 85306788, 119665172, 111227212, 61705170, 94933359, 20534124, 58450095, 23640702, 98488338, 70027662, 129583690, 87302916, 36249845, 82666356 >>,
       << 108474662, 123428992, 72232344, 103970615, 64893936, 62394301, 58461818, 110828221, 98116677, 79520597, 36023439, 43258988, 114315005, 32949803, 111498829, 125442825, 11631697, 37437115, 118330534, 60505620, 32730796, 100727221, 62372114, 76483924, 81917334, 89682738, 50867083, 45150390, 3852048, 66344695, 114212956, 43622663, 24406132, 65437844, 28470244, 47623800, 107083246, 34675473, 45679506, 37535126, 118154547, 80014570, 94111289, 118126008, 37080140, 74597009, 1362459, 69340535, 127246805, 25643159 >>,
       << 11490777, 32394260, 96646785, 54549859, 65575808, 74514489, 101759137, 32255732, 92692016, 63900135, 86691619, 95541870, 65876924, 60152969, 106425648, 2314351, 12489409, 39491631, 29742165, 54277800, 92850100, 32655866, 41098277, 89115205, 78055069, 49529086, 63519947, 74285882, 71259135, 46138336, 57110154, 133765610, 100117759, 73871890, 44398056, 47219209, 94335593, 60900658, 36361787, 41154241, 33742830, 30942292, 16194158, 96809144, 25848226, 42352128, 16046365, 99707808, 71922443, 127624625 >>,
       << 102299357, 92632184, 24850391, 25708194, 29042654, 99133838, 64988034, 37111151, 97252152, 79133014, 131077975, 102033376, 70415568, 80099897, 37983442, 131601909, 13492385, 111753487, 26054020, 39761527, 30532273, 48436637, 24084236, 40569669, 1898961, 95028632, 71690398, 16989677, 36817443, 6109013, 130767652, 7318358, 74270583, 39209916, 93605777, 126713563, 16948946, 85613415, 116562888, 101038055, 65884623, 13769080, 117134460, 1646234, 77049595, 38163378, 63001391, 64251933, 59118721, 45728776 >>,
       << 24744872, 129586900, 6895666, 33887075, 126307417, 115658498, 64119726, 15312516, 110342494, 8770247, 53782042, 66001106, 9943140, 77446468, 84482772, 92133896, 7195288, 20364454, 20024960, 108869646, 75543051, 127389487, 40780112, 11432787, 133401432, 33311626, 15898299, 74903294, 102601862, 55857931, 81378577, 80010790, 106131437, 83002706, 30291214, 104111824, 70138498, 51053474, 60467027, 121937393, 59421007, 39910061, 115449615, 78990506, 132879746, 57556566, 40987442, 76320155, 83352876, 8083974 >>,
       << 81823275, 128863618, 99333105, 13318904, 127183403, 102372841, 27888820, 83955206, 28323322, 35520201, 88641164, 10896797, 21079846, 32194159, 23328859, 74087145, 10075036, 21009452, 359129, 54830300, 60465583, 92525827, 79699989, 63070585, 39092160, 4380847, 31068214, 38668783, 94886005, 37945817, 94353392, 115374462, 60939053, 9553585, 92259242, 31329612, 124005241, 35507920, 105740487, 106199474, 83893865, 79160218, 88742485, 107898393, 125314859, 26550845, 57061186, 15405014, 73089925, 30173413 >>,
       << 86924061, 19997018, 121924920, 35652586, 110948556, 19090631, 9584466, 8004482, 22269779, 106384805, 41286958, 79865458, 100523403, 110627660, 76397676, 123640368, 38736657, 58942178, 16690465, 62907576, 92432795, 40814428, 93916665, 54023778, 126523863, 36540265, 67172238, 72475098, 66276072, 58755000, 10796722, 80267122, 5350023, 119376319, 57985905, 98587474, 43261270, 81029073, 33603811, 3471527, 12257687, 30725714, 129105522, 90502794, 112200465, 115496619, 77201917, 78802305, 127612374, 2784407 >>,
       << 134160338, 102644400, 90232106, 110249293, 36173157, 77342561, 5399803, 102422756, 101504684, 23513701, 63149551, 69654147, 87444123, 59355025, 122953208, 37333543, 24359060, 133807756, 78561612, 58503492, 85199362, 109286106, 65998319, 130064392, 12246348, 63083727, 46702542, 54807553, 44735895, 43091709, 89943797, 14039158, 115122987, 21585546, 44265498, 55250068, 93103304, 66500726, 38683937, 88930456, 126861729, 53747791, 109194984, 102072551, 73832717, 4925405, 61045700, 11819185, 42213778, 33876400 >>,
       << 43389073, 15558733, 130215989, 103689627, 54247457, 116086333, 69067939, 110719854, 132623116, 154493, 88269682, 116684528, 72825679, 62005415, 55465150, 7275149, 25176902, 69583757, 48557203, 83568503, 101528081, 66906611, 83940940, 59329732, 102004203, 6927215, 27321124, 35843681, 73715012, 17584297, 124510130, 38658617, 58802946, 118225231, 93717532, 65056916, 16297533, 3874790, 130613554, 84560158, 81721371, 107282073, 32117961, 95265438, 21257157, 41708177, 73932360, 1835355, 74121929, 54759583 >>,
       << 12510327, 30158811, 133178498, 112931558, 122531374, 15228493, 61934487, 127112341, 15766039, 86934122, 111688366, 20665654, 66890827, 125178574, 96180870, 39172995, 68299645, 94678746, 36698468, 55766169, 112034751, 64759996, 131566207, 63380266, 32713008, 61308842, 73989546, 19413516, 51484043, 25583290, 123731048, 80447099, 68214937, 100165689, 118021172, 18321839, 115967732, 9369750, 37077298, 103706700, 106032834, 114677288, 55692629, 45617282, 125392696, 105725640, 68147397, 35859307, 110132286, 344303 >>,
       << 37962005, 97448913, 40071487, 112404115, 78777447, 77835998, 134070401, 88575748, 65718414, 116133311, 19944139, 59934576, 72287061, 65007200, 46321751, 44619335, 74077101, 102391037, 72937948, 50628276, 61115319, 125205310, 43188224, 116715962, 25320492, 131637342, 93616654, 32051937, 76745380, 51401477, 31348220, 114892116, 104091817, 55133300, 5858241, 42704903, 99952633, 63481797, 94654083, 122598521, 108905459, 51167978, 51818612, 132662681, 89078806, 106353276, 110158871, 87512508, 131643182, 20415230 >>,
       << 66481885, 129496544, 4968688, 16944487, 67416376, 129567565, 79212676, 44559574, 116729200, 13470708, 117331845, 113419271, 59096899, 13383077, 70591959, 122197413, 61327848, 2059919, 96964769, 19348212, 55026398, 116894644, 87883261, 130185397, 20718012, 10043277, 63013961, 104894548, 130084309, 35570755, 45440919, 83652460, 92973237, 53349308, 87219599, 10779739, 114322002, 44099326, 114399317, 90510730, 115338955, 71621574, 51003997, 128062448, 42501540, 84127561, 96464619, 119110003, 101925185, 65491202 >>,
       << 117089266, 72613940, 4818295, 82874006, 9183277, 31510328, 84712997, 91858555, 123605011, 38571356, 133872241, 30532691, 100229285, 12130508, 58246664, 131310267, 13212812, 102055092, 85060193, 94474627, 117115602, 13489853, 59549527, 22329103, 93147259, 40193656, 121255525, 3885234, 6172803, 43536830, 106856567, 7532195, 39375156, 48112135, 50310319, 57805802, 19538047, 32775624, 71291936, 55304649, 75957578, 91509696, 106370163, 24166826, 22814819, 23497411, 10598952, 81804602, 116882112, 51344226 >>,
       << 83176117, 91688771, 32323627, 66795767, 122517836, 78270025, 19208935, 31163805, 61894493, 85618110, 34088261, 61682508, 34269370, 89501846, 1261301, 120649460, 107996023, 62445234, 120958281, 38605268, 90947393, 73363160, 21203129, 9913576, 59287967, 126867379, 46381032, 132560366, 78862539, 40151803, 85756900, 129121356, 56949781, 92652311, 33567615, 61315464, 113454772, 40550084, 26738452, 134133649, 51632653, 114532746, 64855088, 14314759, 31837210, 51185849, 76762164, 48178682, 77149951, 39711319 >>,
       << 133236870, 93855649, 39625201, 2944682, 131257486, 111405755, 88346110, 53124147, 36840133, 1086890, 75957706, 116107380, 92046449, 104463216, 99947759, 130674758, 6582607, 122220938, 81390501, 100015313, 66669607, 111781744, 121353668, 121189873, 38412328, 104118191, 107221190, 30885967, 81478884, 107633485, 47287718, 29394291, 85445405, 25519083, 83334601, 33638559, 90968005, 101411871, 96761368, 103008183, 88473848, 91382823, 112519703, 18358198, 84322033, 13041121, 121252792, 84216001, 86750368, 5291208 >>,
       << 41464269, 105845507, 59166287, 4478111, 77789079, 48970845, 98295664, 17637794, 12097496, 122088178, 39609054, 43851498, 100325183, 55767881, 23574011, 26950221, 17738187, 105563962, 72398083, 117636549, 130391124, 49104566, 71249799, 67349752, 122606146, 36578001, 111464148, 22084778, 34489940, 122681573, 110687992, 126726743, 64672520, 129840092, 108245053, 39613214, 100201499, 116822702, 45461591, 107942264, 15457816, 62858374, 129237350, 10106509, 18892086, 101220499, 129721462, 30281491, 115446116, 90774633 >>,
       << 97202721, 90517271, 131525621, 53339667, 129824747, 113513902, 107989925, 74801233, 49093496, 12120246, 106123537, 52958901, 1868130, 35495029, 72017516, 16587799, 61040347, 49470729, 90305496, 100530635, 90240054, 35186708, 78458327, 51140376, 110382981, 85704631, 126203841, 49858348, 14541967, 90575029, 31383044, 63280554, 3358751, 83154172, 118679991, 126590018, 75350823, 44024257, 122843568, 81883846, 29711402, 86926431, 8484847, 85282470, 110575993, 62312933, 122055942, 94096984, 40559278, 87139443 >>,
       << 54800542, 15659979, 18760553, 6086345, 127005073, 4994527, 40851122, 133671109, 66118957, 15585427, 13044889, 31514326, 119085928, 72148284, 18208520, 52163160, 60887034, 49796322, 89991136, 127423729, 99742578, 93480498, 126966492, 72503409, 56254240, 78831486, 99625660, 97522487, 20739712, 118838226, 55684858, 87902129, 13290458, 111896391, 65679047, 82631441, 54776386, 126037568, 127711057, 37546086, 4391105, 92647902, 49731689, 29161443, 59509870, 59686067, 127581355, 31690501, 114816581, 48678896 >>,
       << 13335151, 131657889, 92030447, 49302863, 73076970, 121023616, 131243802, 86547189, 48140388, 8126895, 53437398, 37028180, 25475673, 129950527, 16395999, 127374071, 113821087, 110621054, 61031132, 12304198, 88955314, 28468360, 86128115, 85831286, 80147573, 130337938, 2866549, 6788532, 105601782, 44762841, 32691263, 132717295, 16901217, 105626412, 75776373, 27542226, 9208698, 111376264, 102697684, 74384510, 27804191, 78703005, 28984499, 109126123, 116728544, 31272553, 44098516, 103933991, 19804386, 105849972 >>,
       << 120867229, 79991301, 380581, 37215199, 115213319, 132074020, 19419691, 132543671, 17447248, 72506491, 33642236, 107174711, 23420607, 14754064, 88725654, 116292667, 3460153, 17690330, 1994519, 48082464, 106029946, 105821489, 31934639, 79034501, 43455870, 2118101, 23386929, 35617024, 7032877, 17013243, 99551712, 56500369, 70610004, 15253751, 100081499, 8530615, 63920651, 60166480, 104423679, 48592048, 68885632, 79680504, 14636981, 60667140, 67624084, 29735904, 126891539, 82558242, 5820356, 97608902 >>,
       << 105122947, 121970586, 116364207, 88436473, 69987997, 40484137, 61477426, 86347724, 129389404, 4180968, 8163847, 134028045, 64287863, 113722485, 53904155, 57213476, 92086447, 14490391, 65802771, 95616885, 122097978, 59533928, 9863756, 120697542, 10843514, 43233116, 81644298, 19909029, 8815720, 16937148, 36912022, 83794475, 84970119, 78566318, 73599154, 95583530, 43645651, 51124122, 133496677, 80180577, 71210133, 39580505, 60896652, 67853916, 81259008, 57740376, 13311507, 106447555, 94191239, 15356396 >>,
       << 114459903, 87874085, 87364555, 117803733, 103208430, 73998961, 96749495, 116164412, 28859907, 57723010, 60606674, 119197559, 30667888, 55541117, 45490631, 111054328, 60867592, 53516659, 55833185, 97926933, 12762205, 41949529, 57279295, 41946203, 89269266, 34210729, 50237832, 127989021, 20486849, 92183558, 123880954, 63655158, 9010480, 12243983, 111638533, 11457410, 12513132, 57965485, 12960658, 99937039, 99159520, 50015814, 108953829, 17463800, 74674816, 8050510, 78714010, 128395983, 75374852, 75387867 >>,
       << 44244334, 89927658, 16405605, 55137801, 47459130, 117253596, 89300492, 126316312, 100701447, 56765623, 116513355, 122922456, 96779126, 6904975, 129976263, 38604965, 80585678, 41936181, 47197152, 13905032, 77566910, 68103759, 28553319, 20767532, 88145654, 64718365, 30097636, 113719305, 14524825, 46991504, 113464099, 74660688, 49333209, 15419645, 102355195, 37388792, 77054398, 30354559, 108343418, 57594492, 113434805, 75291541, 130801430, 103003050, 109847393, 83446356, 82352411, 90593840, 86261621, 74724345 >>,
       << 3523729, 81737913, 124699582, 88292612, 111328342, 93076127, 35896226, 3886030, 24215035, 36677730, 94314632, 102328873, 41471222, 123686672, 45610493, 47113566, 819505, 24347841, 116750996, 19226889, 76010330, 88227303, 53792364, 9339597, 19042093, 99451183, 84982908, 130434173, 4114726, 12315507, 100141425, 71200181, 28874646, 50491958, 56348963, 60887307, 45754284, 21127115, 49667685, 41827259, 96850971, 43537934, 104265111, 126353565, 76181117, 80023800, 11402740, 118560181, 7061037, 20881581 >>,
       << 21127198, 101258669, 82924837, 6679008, 90458549, 10949687, 36521025, 59473616, 88843907, 56910299, 65184410, 81480362, 59330166, 55590800, 36663833, 28933176, 101326753, 68765957, 15276327, 46328316, 57702031, 14883373, 38016697, 91028864, 91064883, 79609131, 65314742, 70723898, 89541016, 41395350, 6095815, 29597483, 53051354, 132130059, 80440034, 7352710, 1031743, 27437207, 40455821, 126879251, 28351344, 102991910, 18419343, 102563939, 34295247, 38848936, 44039837, 16104026, 1037490, 66757928 >>,
       << 100262538, 57801537, 23581357, 17339011, 51030579, 71481992, 94445158, 30884937, 67144075, 74990607, 111850907, 89663907, 108206357, 47535513, 9673809, 53293990, 115664054, 99595101, 5677713, 58548403, 2515446, 61707170, 123636329, 10450542, 115710447, 42018286, 77277086, 57617561, 76960402, 54280720, 95227338, 85918360, 56061934, 38858073, 15458308, 54362516, 2799319, 129681127, 43589647, 23068427, 107551638, 127186639, 82963368, 61753160, 111672627, 92557892, 123449406, 48567046, 11828592, 58614462 >>,
       << 113344772, 14208709, 32657384, 58475513, 79036966, 53747464, 70325062, 10555833, 53118906, 116839809, 41644346, 100100229, 45568701, 29738898, 44703713, 104571430, 22566390, 10251466, 68515906, 84989976, 15304396, 71216573, 68444607, 26025314, 121590890, 104183589, 46892354, 47123808, 97627170, 128610560, 109917420, 86629889, 109392415, 19822594, 31711468, 13798190, 19655410, 34355473, 26477373, 23286644, 80852623, 20517835, 102034369, 101891707, 87980930, 10113745, 23776150, 127680269, 103729914, 84281857 >>,
       << 66319264, 62270726, 101260004, 75663295, 101988984, 77774890, 60251043, 91420187, 124037884, 118386499, 75764804, 86300902, 85268296, 132410076, 83821894, 43380275, 115997251, 130321798, 84183695, 42431444, 20261159, 59023966, 9165226, 62937522, 59352161, 84743076, 40643870, 106881560, 36866075, 79379016, 7539294, 47236885, 68093604, 9957701, 41662236, 61974027, 60654852, 5047559, 7635653, 49491122, 111628432, 38530827, 10298660, 86525668, 115997675, 131180183, 114795533, 12119391, 82545028, 79736043 >>,
       << 68057490, 51604364, 62104107, 77890494, 74399083, 128074780, 106275985, 99176303, 120242544, 5505975, 60362235, 122010619, 108691652, 76726461, 87488142, 25265073, 43154591, 81202508, 63837847, 67292380, 20248230, 128543319, 8304547, 60468188, 13891786, 108846122, 120678760, 112390862, 46095437, 131853560, 95873810, 11318464, 67719420, 86721710, 23160465, 5253567, 33251599, 94975377, 58754920, 133007892, 58978194, 70339290, 70162053, 81846696, 21306555, 48841557, 50043345, 123203390, 37969333, 51998170 >>,
       << 54864099, 103946904, 45414869, 91120109, 80246882, 7028380, 105928245, 84676162, 86879854, 44915875, 8846539, 44250344, 12684373, 74888554, 91050534, 51883769, 38137561, 33822301, 97137886, 114295288, 88122539, 129440922, 121647257, 80893133, 117209612, 20182766, 44743095, 10939011, 78213973, 89068509, 18982195, 123043626, 46952151, 41638598, 129882026, 88054173, 93748393, 88870276, 52607710, 17307598, 79865081, 95138090, 125896524, 11370793, 41551377, 75017250, 50557040, 86368203, 106255069, 44087376 >>,
       << 109143814, 17152188, 89941500, 94332362, 111260989, 127118767, 99156657, 133837101, 91994768, 122466695, 70651318, 12543044, 86707983, 89987086, 56828640, 68248169, 48563745, 2446861, 48667035, 41455302, 24194479, 127663784, 28748452, 45866538, 127193881, 102831745, 65266178, 25770506, 30406092, 134214590, 18463709, 20796389, 10356922, 39700543, 113337259, 105779699, 13574883, 68140959, 103465053, 72446804, 112087885, 99139119, 118605812, 70669879, 5066382, 88842638, 45199748, 117627446, 102852065, 82950779 >>,
       << 17589104, 80161060, 50562485, 20703455, 21776452, 24272734, 111581244, 92992167, 103494996, 83851247, 108588009, 121152435, 22218290, 96795543, 58743530, 5864298, 55144509, 48895439, 90779894, 96581154, 31880763, 130135979, 59619341, 81952730, 38242379, 100984232, 100466870, 105199903, 60254091, 31407343, 71673763, 32100652, 41536077, 129600186, 108531658, 105276391, 62950208, 121329381, 112087022, 26040410, 49370777, 91040800, 127121659, 76560394, 132129272, 59135982, 61965637, 103272294, 37818761, 104438040 >>,
       << 51254050, 67498993, 70794454, 56191704, 129690316, 21751079, 109641286, 26802975, 107543192, 81156554, 18575536, 117172334, 33554863, 7003454, 86057593, 64503785, 117321990, 49823245, 74429198, 125398758, 13769360, 95482622, 113533739, 69244185, 114241573, 16733967, 38260510, 11257528, 102423807, 21516757, 36613428, 60306604, 121508142, 68901038, 19776801, 111541202, 58716573, 12309586, 127025437, 122205906, 29801436, 109616055, 60549373, 118732998, 46920514, 124885828, 3579612, 55686520, 7148018, 53211150 >>,
       << 67378254, 50192261, 31645597, 51830338, 133482933, 10952896, 50319927, 30137082, 3783268, 42773159, 124933338, 13298711, 112632334, 95925983, 87236246, 45001909, 106217311, 19602406, 18468304, 5140967, 38504300, 123130829, 111368714, 63411827, 93425200, 111549761, 18628439, 101849935, 94695462, 62962895, 60210270, 82590645, 704803, 121582134, 10633503, 2550658, 34349528, 28944689, 112066850, 20068183, 73659258, 126194990, 97607800, 81722503, 70836292, 56808292, 14923247, 104176127, 38668339, 31895531 >>,
       << 40419829, 16354208, 6408822, 32002808, 56348030, 85758649, 106555334, 83592219, 61352751, 8429833, 14879094, 112298324, 121486758, 67085942, 80092958, 71947921, 2205915, 84819556, 69172559, 77181563, 32472386, 96441387, 19270557, 39093864, 57611469, 209961, 82518345, 47354167, 32287985, 76593187, 55910756, 25140847, 89170406, 89686286, 11490910, 70260907, 130815911, 48399417, 9083764, 127963675, 70606503, 73025444, 68092370, 105550476, 132651606, 68131950, 74377016, 2729224, 52405812, 117216561 >>,
       << 63100462, 5843091, 85318289, 51926331, 131672882, 50103798, 34044361, 100303135, 2179995, 47928328, 105833365, 9067690, 46278607, 32363373, 98373678, 88195059, 84323222, 13913528, 103549161, 78101741, 98675126, 101559726, 44629892, 17905932, 5950635, 47284777, 73284724, 45439043, 109187311, 86274567, 23500064, 111452207, 104574748, 91896538, 62360629, 131643322, 93333565, 64227366, 84790150, 24464938, 108917375, 18099607, 8469210, 96105940, 104178511, 126648539, 61428713, 4963880, 39385195, 27057085 >>,
       << 5879578, 106180881, 26772387, 118888773, 5624520, 42358553, 125274932, 41617680, 69173614, 53448727, 132757801, 109441951, 72884346, 63538641, 33999198, 4915156, 101104995, 86825515, 25649468, 38401154, 47912262, 115714274, 104802781, 6416148, 116205477, 88010774, 44550177, 36670512, 16706752, 107285922, 49394697, 58646621, 119384859, 53690013, 99765071, 59020451, 120076211, 128376400, 51894582, 45504725, 130690967, 25074182, 66599269, 92887860, 66776459, 49304469, 124058850, 107010570, 69696025, 35798645 >>,
       << 107528276, 11087928, 97587203, 56975380, 10593403, 57795113, 80859912, 133559814, 110372778, 24220459, 73212334, 39428661, 43112268, 13770458, 10746667, 44012664, 88707076, 39680122, 41137177, 59849800, 80882505, 96323085, 57192331, 22366682, 92578665, 59580374, 47183837, 60012727, 5684813, 97551376, 116774412, 122353851, 47319709, 82523968, 133969505, 58376726, 36850196, 85828117, 131537034, 106230355, 127225572, 7698469, 10071854, 90084776, 85565484, 54520614, 48762794, 68865239, 107521281, 100649603 >>,
       << 91188948, 21473054, 127881228, 4179623, 19163535, 113906466, 81547054, 91011547, 104865917, 58810561, 4670638, 16942307, 9023909, 31674763, 104490564, 86592295, 49167775, 48607028, 51385847, 127435318, 76134287, 4346684, 81214453, 20594121, 91142166, 60387584, 127348938, 49790013, 49930790, 59584522, 102419464, 10319387, 77030477, 18481124, 71062902, 49251188, 53423225, 42196099, 87182566, 37405107, 33502308, 128918819, 15226815, 3478029, 98740608, 24970946, 66980546, 69490594, 51940566, 122613599 >>,
       << 75386435, 15805613, 35135070, 104013972, 34935501, 94494355, 59897763, 28799154, 133729861, 82124765, 38329479, 93144504, 123007716, 134033694, 65927774, 26867482, 16460116, 18217159, 114464407, 9939096, 60672142, 23173544, 120618657, 95746886, 59741812, 133850294, 11783073, 108785242, 91526995, 129863870, 113483936, 132415809, 42894344, 89635939, 46630633, 95232912, 8715975, 73819367, 72769008, 38971765, 119632513, 40259503, 114267880, 21139996, 95537400, 95236039, 124463381, 93981837, 85590648, 23366099 >>,
       << 106528125, 48518659, 68284040, 30097200, 16288992, 132222252, 26975128, 106309255, 18639738, 31774192, 106082076, 66306502, 3527782, 48438711, 74359498, 76809773, 49514418, 62734149, 107865650, 131937631, 74040798, 17417599, 82134318, 118681549, 11571646, 8824561, 41512297, 53440127, 134163375, 96225198, 96485052, 64245343, 70557676, 55135987, 103235518, 54953237, 110506743, 77161840, 9898653, 16821075, 130510598, 42550733, 86213226, 9954260, 60394554, 62523073, 91282683, 69438885, 46239991, 17224779 >>,
       << 117837816, 111273707, 104725117, 73994695, 85871687, 78891300, 24422678, 103049906, 129689841, 17318510, 58065043, 67493234, 122233731, 116529392, 7437386, 111587385, 16664623, 69538491, 20537388, 40818905, 22099899, 21738837, 43306792, 125458388, 95204947, 30262109, 46442431, 127169033, 126286004, 69645282, 120114923, 38124318, 113539300, 10584397, 33635675, 26347197, 85235919, 128359342, 73932683, 36836194, 16800072, 83889081, 40644430, 82467167, 71602209, 12539748, 67454225, 86031876, 22633927, 79431184 >>,
       << 126380350, 77933054, 20695604, 22978158, 88413629, 83816177, 96721692, 121064510, 81220369, 45314533, 113082462, 124007748, 75647532, 5529005, 110761336, 115934749, 3808225, 10901547, 6101779, 127311803, 86094462, 103484870, 77412924, 35521514, 87393186, 28294221, 102939494, 76790955, 55913331, 82961108, 85763946, 4064904, 66845536, 119319141, 84176528, 73226170, 38879071, 86155337, 128399412, 40546385, 64819756, 32866956, 108003415, 108360590, 91937914, 54504816, 39920898, 60873663, 9794273, 92424149 >>,
       << 8041391, 21217198, 59002851, 55783806, 64995086, 62336371, 27383505, 45659873, 81424562, 19282885, 41954112, 115626569, 96417034, 42857920, 98542622, 132610251, 115531582, 46354851, 130912499, 53514837, 17551135, 102094727, 49733063, 69119463, 75383550, 14251766, 42831009, 32445506, 62608888, 16444612, 35899440, 60343755, 33275109, 18908276, 12993840, 6792127, 38951595, 126887412, 51559717, 115986108, 82594562, 56121095, 33322272, 129209507, 116139606, 121106109, 21434525, 109183148, 43947691, 125326009 >>,
       << 77535841, 96788219, 41971886, 25479101, 102424417, 21386576, 66876068, 133676751, 69085198, 62654864, 66942394, 117987538, 41411602, 66755908, 3110670, 12086184, 126866999, 52780072, 67839607, 61368457, 129746483, 32310051, 28876195, 78295121, 47364777, 6530784, 6783418, 37763008, 66423575, 80197611, 118425599, 113125364, 87813295, 90264187, 63161098, 38352498, 72033413, 1097552, 113705550, 14428014, 57838146, 17976443, 118441203, 35496951, 97644479, 49093843, 102523119, 54123845, 49115280, 6072331 >>,
       << 53765155, 6866268, 76541906, 75405783, 26126192, 48657117, 74252324, 38735464, 9869264, 51854861, 67680031, 60445541, 102596583, 73800569, 37543473, 110771409, 132753506, 83650068, 91321559, 82012822, 15946545, 17268907, 130873400, 12976369, 52868861, 50089832, 106689299, 132444398, 45511258, 74870921, 126023543, 49070856, 101329710, 19363237, 26717096, 80861208, 68333267, 53873262, 67119320, 5402922, 6080513, 5222944, 18392710, 95776676, 44699966, 107906470, 63584863, 69703656, 61335966, 19990477 >>,
       << 81370909, 119874106, 69190008, 18761086, 44018830, 125006195, 82284610, 42752377, 21810655, 52741471, 132958193, 82745294, 99229764, 113092116, 40162553, 79688374, 45147280, 68090664, 111171119, 68412668, 71449442, 65746104, 95125446, 75554415, 40237208, 63739005, 109487955, 2232974, 49440148, 44458225, 90436763, 14710878, 131519687, 55907088, 78343175, 41295819, 106938620, 120630478, 97351367, 117051161, 92347655, 84457912, 3576520, 80115852, 63698420, 35638891, 129798031, 87991930, 105079594, 130467263 >>,
       << 104174703, 77641510, 77528776, 30540334, 96824684, 6892773, 78319168, 64484744, 22885741, 70361272, 84426338, 96795521, 83179531, 103965874, 112899540, 51028283, 19834119, 110281511, 91365617, 32507072, 4237322, 76849080, 127265943, 94022325, 14749927, 25606639, 2541730, 59195194, 42103092, 56207740, 20324759, 55426567, 92677376, 27365878, 55079923, 67353073, 104015021, 82071195, 123550230, 63297813, 117147609, 113867232, 98762406, 97630257, 8359252, 94727548, 18533117, 69616482, 27828932, 75280948 >>,
       << 43627409, 133965783, 88882576, 64205866, 70528349, 50576565, 42111160, 128404153, 23244151, 61694994, 122423232, 71555103, 45946354, 73319550, 47551594, 90713544, 103614714, 116454602, 96760856, 91368166, 86343485, 107864416, 93054937, 35482091, 81883092, 64985553, 25805259, 128491650, 33087238, 37447604, 74905122, 40063879, 30181142, 126364050, 130581853, 131836745, 39945150, 103505258, 38789478, 94610202, 27820354, 92642432, 94621922, 65632882, 42552488, 64398125, 46815569, 75227370, 125319142, 125424505 >>,
       << 106757499, 96860153, 36702849, 38626436, 16357665, 76970753, 90814700, 72905845, 50961690, 120226933, 131554920, 52953249, 109840763, 46323191, 128125432, 103758937, 107993709, 19659692, 38983895, 5646068, 38605090, 128220036, 95850421, 10607151, 46488123, 124018473, 59374716, 88043078, 34419327, 100306075, 64300930, 28720823, 27121108, 111125796, 72286705, 36390817, 125228352, 75432781, 93438530, 36456416, 18424464, 14660143, 82634772, 99440703, 78763056, 32115895, 32542167, 6813620, 89903592, 121491765 >>,
       << 71275182, 30289135, 85623471, 31250794, 7045237, 13448342, 55472370, 44331259, 96282168, 63404979, 13494908, 91428040, 103450469, 18450513, 695441, 129455517, 73867070, 131252953, 124701648, 21198492, 54614193, 87629787, 125497883, 118198500, 117896801, 63847325, 64082055, 87313825, 26770527, 101456664, 129374352, 38553376, 43106399, 38307798, 86690951, 7940667, 121861235, 103176522, 12007214, 87550053, 77058874, 31168067, 71826922, 99144826, 97055211, 114129776, 125717636, 5006085, 122571618, 123677728 >>,
       << 23496796, 56087572, 118412915, 112421425, 23593960, 125348970, 123431295, 4877451, 133838133, 112233293, 53283709, 105758285, 66489301, 25006323, 125709497, 100529507, 129135087, 117076873, 124290944, 38851599, 117674476, 5028625, 1243818, 40049524, 76230551, 80904160, 14401654, 124615099, 131935206, 44968591, 38193218, 60981700, 132754683, 86075494, 72920556, 70372842, 66291802, 119354451, 125971458, 18012011, 114227304, 67674279, 62816684, 36619573, 25878707, 108557161, 15119192, 44383668, 21809610, 98129162 >>,
       << 61594457, 87011385, 34529507, 96448614, 24991216, 1890348, 98867180, 45246430, 106135039, 39597485, 76206305, 90516588, 101640770, 25925669, 23554528, 82000924, 114910038, 85728324, 120399041, 54423996, 110996695, 57405358, 69159799, 44013571, 11641746, 53798927, 89826000, 12802372, 24800912, 131759556, 18872606, 64082804, 43433080, 125604357, 33292316, 916723, 35002007, 51482483, 31611127, 59959826, 101167505, 35835371, 128048386, 44241559, 40526484, 78176558, 97023650, 76890296, 1534878, 35105069 >>,
       << 87735896, 48258264, 92981826, 31715995, 8338186, 89628735, 15867870, 62464258, 41178850, 21436829, 54414096, 92083242, 67447155, 123897191, 120140753, 119158688, 94429826, 103326316, 41738753, 92649206, 15759274, 85726382, 122960938, 126249976, 39599276, 49330907, 82493631, 29641883, 29410942, 128494756, 17927298, 64180488, 20560218, 61066203, 100359270, 132719584, 81300905, 50147077, 55813853, 94212889, 73717007, 122513524, 63193474, 101649866, 72144402, 107641945, 89133246, 110810627, 29314711, 102255067 >>,
       << 33214247, 91313946, 101299427, 79968863, 117190203, 105679105, 10988446, 70532309, 59961498, 70890196, 94457890, 48557943, 10482769, 123110500, 75721444, 15060409, 8289024, 111236170, 73504237, 121183597, 67845324, 27133023, 76866717, 72029307, 20112846, 22083803, 44039203, 114687170, 69839059, 59302835, 15601471, 91307681, 27568520, 96223100, 78268756, 65609379, 12205980, 120646886, 68501420, 59791674, 108540814, 7467311, 60858653, 17709269, 68886959, 55757342, 61310453, 75686878, 7749299, 75000490 >>,
       << 62059365, 90297353, 108302345, 41361818, 97077009, 2921981, 53143336, 34152669, 109582497, 404729, 100100183, 29246218, 77619624, 9801857, 6078694, 56867700, 46241881, 94004067, 8557710, 72633735, 133429019, 8087373, 125437579, 120019968, 9263592, 132357100, 125329234, 63360324, 4259382, 38532662, 54877191, 24156684, 103209683, 18176954, 102787651, 86104027, 131309670, 97883579, 86688655, 129356706, 56420024, 50259293, 133258956, 119632771, 51335545, 60201634, 116718458, 123093101, 121704248, 50666702 >>,
       << 50418290, 10770971, 91634516, 129405267, 88824290, 117380613, 72383656, 17849589, 87715861, 115465710, 46676884, 15922674, 23954324, 133257638, 72109613, 52755436, 70980044, 17092236, 97691465, 131362162, 29888974, 112047860, 466177, 101492683, 3051483, 131330796, 40045602, 62143331, 90395620, 96515159, 73074216, 56925500, 71394920, 50905625, 110509567, 30824989, 33220503, 61824078, 46460773, 20820038, 36997080, 25297417, 125817088, 117468452, 97311066, 102742319, 15145751, 4324134, 108646322, 88610233 >>,
       << 56269520, 82533595, 102817955, 125659727, 118615805, 119325109, 2099943, 32301683, 27659807, 9031632, 13542127, 79717834, 4506531, 59920305, 80233330, 90197485, 94393484, 117066369, 6533225, 32847661, 99393741, 5937353, 53991141, 58916591, 31452485, 72445335, 29161379, 101251935, 115927910, 104161496, 7575790, 18808678, 67631755, 133343090, 38824283, 31428626, 109492977, 122996727, 98182614, 77324220, 42802529, 77507357, 80251151, 103688323, 90265703, 109841438, 43038943, 31796721, 40502136, 117609401 >>,
       << 19228089, 132297818, 88612211, 69961132, 29667854, 55507111, 40332555, 36930534, 8181595, 74721440, 127308233, 79412216, 118073199, 98678498, 122349883, 23505978, 84019376, 91100299, 57337891, 74605013, 66521096, 6292676, 130498586, 46226575, 126377588, 86344420, 90106068, 51157708, 105468907, 70392240, 42779814, 93456932, 55878146, 54795619, 20027648, 40250352, 50527631, 24679818, 101256014, 72199509, 63554620, 32342202, 113996610, 30245233, 40364158, 115097236, 94969350, 19374563, 108149445, 62146184 >>,
       << 122774482, 7734153, 75482164, 55388634, 129894063, 55902739, 74797762, 71134297, 17997624, 52132722, 32595918, 34224936, 27291394, 44327148, 86799390, 10612653, 123779092, 60369365, 113700318, 49805178, 12410307, 71891784, 97252113, 111321027, 25566010, 6917129, 36032304, 50622628, 90418714, 81197624, 80922827, 5307982, 117255353, 9768947, 25254849, 107998377, 102233162, 78864147, 97214603, 90120563, 75007641, 29127464, 64343201, 28036618, 116698804, 121739885, 44689713, 40693207, 128449017, 122003131 >>,
       << 2058055, 28428357, 125783454, 25504548, 129127863, 99519117, 15745913, 100244432, 134160283, 101244558, 64279671, 122734233, 32560305, 93365379, 81121400, 94458220, 27449289, 53235053, 122826194, 32122457, 74098828, 43166435, 104087711, 37991562, 51091554, 62579077, 71625307, 87069904, 48219001, 41395738, 35106207, 48270683, 68829070, 118489014, 66743428, 62546007, 13234972, 107752222, 131710333, 96960708, 63013937, 102224109, 112706811, 42980983, 122719362, 27263310, 49755172, 41999682, 55556767, 6135823 >>,
       << 75500790, 115975504, 29698906, 99489210, 19585415, 2176998, 35000508, 74264220, 125461128, 78387434, 77731247, 96638366, 56046380, 39620038, 20456313, 26332415, 44273769, 30872577, 50981231, 76475853, 111852050, 32981324, 67015110, 73905989, 87859993, 126629667, 91918556, 45307111, 34537812, 102456528, 110272203, 65581613, 129722543, 97114303, 86126771, 99266638, 65846624, 61851421, 22579937, 98351024, 106699807, 47268285, 22718459, 18784915, 96678845, 73356206, 65540707, 24702473, 123064152, 119368486 >>,
       << 72764376, 132918975, 86142207, 128478161, 7882882, 70322629, 4539747, 112617866, 113641799, 9976458, 126861000, 109789552, 89686372, 6511491, 102587823, 856822, 55350347, 18453800, 113084437, 84651342, 31062464, 9122502, 94914692, 20270856, 1226946, 29356057, 67878323, 61204580, 50090149, 8113477, 82924441, 85594482, 89490304, 125346435, 82747827, 122507426, 64854563, 88487646, 65478707, 2111482, 887495, 71432350, 74040345, 55208920, 1590610, 2244945, 71057233, 96931066, 36875077, 71905550 >>,
       << 131195057, 38478684, 2300840, 67406294, 109140114, 93665059, 90467171, 57790557, 108201996, 126125997, 122107714, 24060788, 14363501, 123218430, 12927031, 70381817, 19984682, 32342289, 25760684, 83185576, 70659726, 33878996, 109416223, 47572279, 35879718, 106694548, 53270536, 10605783, 50070135, 128754770, 54496076, 61605634, 75833309, 32642810, 132906827, 93581474, 30314047, 40261914, 91810512, 111140610, 113798796, 10820219, 87742922, 133100325, 115188225, 87227356, 101949887, 4252622, 12549425, 54395532 >>,
       << 50903955, 50622842, 74182331, 63888323, 7531619, 85462880, 1268380, 94334279, 23002714, 11097943, 67089857, 113458244, 58238367, 86557984, 105277206, 44462389, 75947990, 131174907, 115153483, 130706558, 12799248, 120096843, 70888325, 123366522, 5711200, 30838737, 28375916, 120966808, 116516676, 92917283, 119125522, 76072480, 63820568, 36385762, 6249441, 124038557, 9978827, 91862470, 124229890, 37631028, 120703566, 72884346, 75633013, 88329927, 4416002, 24072553, 124656910, 114142460, 42209421, 2101593 >>,
       << 129046210, 27804291, 78790652, 19353063, 100965885, 110151246, 95658504, 110179653, 53458386, 124671484, 10326375, 40168264, 21803703, 75693188, 32275631, 76060638, 112024901, 114010232, 52231715, 90870094, 120329651, 72553061, 44524025, 51518966, 101416158, 99286916, 18783850, 106098856, 132671265, 92517694, 97195589, 10526386, 67215278, 100053485, 130771463, 46420476, 7207013, 13111164, 58664992, 31157840, 112565007, 10202996, 45713584, 81224373, 103214191, 82391596, 128158924, 79941241, 53244581, 130046311 >>,
       << 103824783, 43805532, 3976288, 85110541, 36685332, 105166050, 133222621, 60471823, 65847681, 30620216, 47756170, 74227466, 126318054, 50388958, 57961650, 24929311, 91227099, 78634827, 88673882, 51012496, 11501669, 103638554, 83029219, 39645162, 107113152, 33077929, 95711807, 9865900, 11010955, 35966597, 20699187, 51002735, 95519690, 105211972, 85080736, 20706693, 99274852, 52294176, 42503832, 48412365, 14301022, 12283664, 697290, 126561979, 41374957, 59691437, 48307308, 102186196, 36207439, 13721268 >>,
       << 17784789, 11716836, 25151299, 57845091, 60242778, 74757265, 74455942, 68778646, 54766762, 13863742, 3524813, 12028437, 47501571, 74386123, 12490873, 80117857, 80268079, 105285583, 43544301, 115926291, 51705758, 1656329, 39171088, 55540647, 52049575, 104578307, 11368176, 97286893, 120948432, 75099723, 121494903, 133241991, 131288166, 32580349, 76767229, 69941466, 22761034, 91981555, 51100987, 22750139, 18634797, 36093692, 40417154, 36024950, 66185975, 19587040, 8491573, 22442197, 58341261, 37038975 >>,
       << 56519399, 40232066, 64992426, 105047736, 10324210, 48469365, 33782566, 126731371, 33096758, 96757486, 83890601, 66545476, 79699345, 82767884, 26246038, 61453148, 14357588, 18185096, 40890504, 908300, 127348929, 53108878, 44589439, 112959436, 83240786, 50987966, 107921315, 115722298, 44230340, 59085720, 44927535, 57796330, 109451264, 110533028, 115361273, 87380687, 130758316, 79778067, 18270317, 40323741, 43038948, 80961645, 127141624, 93320552, 26957830, 64291599, 42168966, 23842070, 129463014, 53450811 >>,
       << 130020098, 42833932, 39117508, 98633167, 93275652, 84946730, 65901885, 129890962, 77293208, 104954823, 32537638, 43739710, 50473288, 37621248, 109588038, 105477220, 52738860, 48991556, 15285764, 125099935, 75678734, 26816708, 79487366, 133850632, 73233096, 24149421, 91497920, 103027931, 73833059, 3612618, 127910113, 97604925, 61957885, 126563950, 95075416, 28138531, 58848427, 107063538, 39101812, 111572755, 92990777, 9282319, 109919697, 113788169, 106791252, 106709217, 54914054, 90325531, 67015343, 18680305 >>,
       << 85004924, 40645509, 32483531, 33914361, 88404247, 20688754, 95997403, 56791272, 105908090, 50598851, 9927432, 60272714, 132969585, 80253323, 64321792, 78147469, 53795149, 71721578, 67996397, 123949501, 123532947, 116720262, 92839592, 56143368, 72966824, 4934536, 106128764, 129980211, 48255231, 94171759, 120192178, 109024654, 72062301, 79701163, 85655118, 122728858, 11406082, 14679315, 103207265, 33316996, 88261798, 89213703, 47648477, 22325574, 86838849, 82232236, 5945401, 75594147, 132017658, 86574622 >>,
       << 90928738, 86804457, 53635785, 129763193, 101023372, 44506155, 129616311, 106868324, 57774765, 14219637, 1415698, 13234748, 34727276, 29796480, 68541804, 100240916, 69631857, 74892608, 77915846, 92296754, 77206788, 29666377, 59831384, 50213478, 52497139, 62151291, 103662019, 91208393, 78999206, 92668926, 67171380, 20232642, 46300738, 133909393, 3296743, 64796438, 14032377, 39652241, 55831276, 123553799, 129080929, 11523236, 15578562, 111577578, 126255416, 97999171, 19015320, 46751880, 41861213, 46045630 >>,
       << 61113711, 105262937, 27765262, 69942848, 64817230, 46748074, 63909453, 13102741, 58809636, 96904386, 93517982, 60726434, 42803305, 9015987, 40300763, 5997257, 108741315, 95399141, 15446483, 3031322, 113975011, 46047142, 86969050, 14678410, 90884102, 107380910, 22059232, 124812077, 132056885, 99386816, 32737441, 69255529, 23414716, 74076145, 21493051, 44424679, 75141654, 57226329, 128642675, 62015859, 31119124, 107072969, 54364546, 84524999, 24756698, 25016429, 85963619, 88222374, 58000104, 53094168 >>,
       << 3918120, 98970591, 82424037, 118527323, 26484437, 60340936, 79484162, 57653606, 52188655, 597274, 94588013, 28829445, 27619925, 37358810, 100975418, 94457033, 108545874, 106838392, 8397164, 77490324, 13656928, 107307389, 117035084, 72060023, 25093324, 49095909, 43752954, 26450861, 61411378, 15294777, 35212476, 90020021, 115781117, 65697427, 70828710, 129643104, 85779702, 42064387, 80124068, 52162278, 82048427, 52686364, 78786439, 15331969, 46697654, 47242616, 113483478, 61453007, 82861016, 23156250 >>,
       << 109218099, 90407566, 94756153, 107456509, 39922369, 123303488, 82474715, 79211057, 11375216, 90209088, 17978165, 42035079, 15819123, 32020689, 40987410, 15696616, 24567819, 50104292, 93071477, 18972822, 68561753, 52138657, 56135102, 80050918, 18504235, 77149161, 51500679, 56779304, 24931439, 65319770, 85295586, 72125824, 93070991, 123367700, 86605343, 124915759, 134204246, 23251181, 74479105, 22396311, 65718640, 38766747, 18830282, 25111946, 42222214, 113009342, 60532325, 83135800, 7195581, 116168427 >>,
       << 48189421, 127754064, 1286267, 65043108, 18325379, 26189702, 109416431, 51532114, 129362950, 75374270, 67838742, 87653539, 66433728, 54913082, 91898431, 65998330, 55784972, 95313695, 112728369, 59572772, 65592138, 22448383, 11095863, 75886408, 4142053, 106821324, 102147290, 29598969, 39203644, 4388260, 36890134, 30177972, 72156607, 38744673, 22576626, 104789175, 61380637, 75920319, 99659112, 103689588, 102799982, 66479831, 73782999, 68559218, 15194922, 76868379, 15328557, 35955440, 104033909, 72894477 >>,
       << 110499147, 132995490, 49239353, 72751830, 110408969, 101574130, 5584869, 102006027, 96499894, 59239219, 73330295, 29332201, 132845449, 57063296, 13746101, 98782730, 111410205, 87734330, 100843885, 33223132, 39957816, 117414989, 134125476, 4325890, 60362053, 35274462, 46785209, 115722474, 109619455, 11674661, 58930964, 116137320, 133406742, 15755285, 104103517, 108969885, 31802361, 28169370, 108810676, 99000738, 78909809, 92493944, 47060874, 115567999, 95395781, 81907952, 84929036, 57467610, 22277675, 82698414 >>,
       << 18687800, 105340691, 27732020, 109190130, 27775381, 108104393, 7966873, 76514083, 47085656, 71441519, 37726592, 80108882, 72312290, 22599227, 43440052, 131399176, 94496496, 39276764, 38833650, 76871268, 35882178, 127828607, 115161071, 69043610, 132270000, 120816797, 91174010, 109411729, 12780905, 18198434, 129221069, 100675930, 105453667, 55243509, 123315049, 7957216, 133209246, 37221734, 116373157, 88032908, 17030641, 94143874, 116243128, 17809465, 33511112, 19628462, 95481800, 43231088, 111196945, 33226234 >>,
       << 102203254, 113220123, 90762665, 52707402, 65694038, 19081953, 77500742, 84879557, 36066605, 84263610, 55596350, 50354777, 60665302, 10135622, 85044078, 106649222, 118128388, 103197895, 12494970, 54069715, 69204468, 100636772, 37342819, 93241540, 125672905, 117751542, 49535894, 61028216, 127540943, 65504221, 43928023, 78108751, 331931, 116622825, 103902679, 113704873, 98344554, 12501261, 98104023, 130479803, 61532017, 85206855, 89139874, 93588542, 48079840, 114099328, 8500100, 106794083, 71729237, 53380520 >>,
       << 29236638, 129940018, 57665720, 110709177, 28434222, 66399516, 36042404, 43334226, 111178398, 38063218, 45332729, 73458776, 77568940, 17528063, 75986307, 114410221, 65140950, 105804325, 46135950, 120011406, 91610568, 102308003, 6497381, 6166355, 13364695, 84044392, 105211902, 112300265, 61684020, 2185246, 16674831, 124746368, 115112049, 21204188, 59228397, 61272827, 90721, 133122274, 128584847, 57418250, 27154689, 133639795, 92421237, 122058570, 17705074, 118399868, 87241147, 40515702, 21337593, 117363117 >>,
       << 125188305, 117654594, 36778269, 12527880, 87857309, 48376818, 33606680, 11062296, 49908025, 89188862, 121306018, 87095388, 22216400, 6950770, 53196064, 83967184, 41004756, 97440508, 93877431, 101365544, 31426254, 57610401, 87977738, 12240547, 94448752, 12775337, 145801, 28644905, 63995913, 10460758, 17810664, 79682313, 30358823, 69718627, 91265736, 59735865, 1246473, 1082139, 93361463, 46113741, 109670517, 16185823, 132627906, 115472919, 56682016, 93151264, 17740248, 64115841, 9506414, 30728728 >>,
       << 51414775, 11989814, 98081400, 108173695, 13747542, 13851475, 42057323, 49333294, 118244341, 40165370, 18405182, 51367949, 103812108, 109168394, 101087128, 117373040, 17870584, 86110892, 133270171, 90883800, 19173414, 9182050, 71203615, 75603667, 1137460, 81915661, 87244236, 22027350, 59069144, 47135617, 96963185, 28595818, 84299475, 100430943, 20317091, 123466099, 55258766, 82688322, 92149351, 59375757, 115422216, 29158087, 11635070, 120338668, 13484199, 18792245, 100991545, 16529882, 79131271, 97980169 >>,
       << 51543890, 47182314, 129285053, 57631581, 42211967, 106176512, 18767690, 33257324, 37173969, 86519508, 11307671, 33308414, 74275638, 80664728, 80531692, 96795092, 81549765, 38241423, 104551536, 126336361, 92674130, 3600310, 113802151, 113691813, 88369672, 117551535, 40486688, 27574457, 69491111, 81460345, 68386961, 25319707, 100373874, 52579931, 39666982, 86727439, 7324144, 105200069, 120515783, 106539083, 128133841, 32123815, 66422705, 51792685, 15132198, 32357445, 67052833, 85641960, 79715904, 9531069 >>,
       << 70905413, 119282586, 131224263, 1619606, 132457131, 48465780, 125349211, 42476240, 17714442, 51920550, 115536499, 112605090, 76286724, 56487347, 49044830, 73330690, 91662930, 23188838, 102371342, 63218512, 128104510, 132522056, 103396915, 9796799, 2240013, 78834594, 9064068, 1851322, 35189912, 28956527, 5345470, 123826496, 8115992, 127329673, 105936710, 53415303, 67996124, 38451741, 84365330, 95647455, 67249653, 102959761, 55758338, 56851305, 94195429, 53992760, 11063273, 85971459, 72016510, 72162880 >>,
       << 82684436, 20492422, 37241089, 11220209, 41594998, 10606094, 68626154, 123604442, 27272705, 130770128, 108455988, 20854365, 71993070, 43855682, 52443094, 78710263, 85133532, 102438208, 112008246, 87219985, 91409746, 86322745, 8873816, 41630244, 93774689, 58718382, 97973354, 127966936, 113611027, 32029368, 7772004, 32813517, 11571285, 124101436, 58315400, 15567455, 60850538, 82181084, 81716102, 7385816, 41512209, 89399687, 99548417, 88322292, 99409458, 23574794, 16031369, 1699863, 95012811, 18416255 >>,
       << 94153684, 1523452, 21989243, 66627415, 127911669, 46533974, 70196591, 69420474, 105090749, 110395003, 96739510, 34795538, 22409388, 49911470, 17036337, 100633282, 104840685, 117233824, 36072958, 98372982, 118972575, 15845304, 103539620, 120782188, 3940129, 44964418, 108328181, 57622968, 36504617, 70310522, 8572753, 35292504, 95606407, 130869074, 77396877, 84226031, 10344164, 66591799, 61095611, 68555983, 48335011, 7440911, 67056519, 115341317, 76086168, 22398441, 49350218, 21113788, 34241100, 103794455 >>,
       << 13811663, 120026675, 77029205, 90478912, 97009671, 15479814, 30655922, 99425803, 68293320, 344739, 5910667, 115251287, 115820302, 1649277, 32823140, 6171536, 63319171, 48852098, 51402634, 123510716, 20144023, 24019729, 124978189, 128894940, 115089715, 4746418, 74204255, 107792335, 122667979, 95834249, 99410484, 88007006, 56286795, 30133935, 43191535, 33321320, 55869014, 122923945, 96675408, 42940967, 36407626, 110863440, 10453825, 76710258, 50037465, 16025721, 67382794, 90372247, 121056473, 7069536 >>,
       << 24071191, 29955391, 107956421, 69226031, 131723139, 6164431, 128054370, 53811222, 9251149, 117707771, 62423883, 116236878, 37890586, 103821100, 113393378, 41701149, 43929586, 11594468, 74234670, 61303434, 1069604, 49515518, 26933626, 39137230, 75672859, 105294776, 40790016, 99264208, 83579731, 32559072, 62267186, 49428849, 79415412, 130440538, 66217748, 133920719, 103698396, 104137650, 26229153, 98309564, 120855453, 73357939, 102070195, 106833760, 32900372, 20208677, 856024, 125144278, 55034115, 3209180 >>,
       << 31272427, 72684966, 46496201, 85354668, 112685715, 93074733, 117735605, 1287794, 127639752, 44965270, 196231, 101861746, 88221829, 50502752, 113951654, 99063777, 97605150, 41273379, 13951801, 27540722, 71110496, 131951561, 31966313, 56346728, 66038997, 129008075, 8038980, 130534690, 133809608, 19109045, 95516378, 37557512, 12485824, 5892193, 123651357, 31067722, 120431885, 113481657, 69760901, 55439545, 94066079, 120202436, 49995026, 61533194, 130802529, 100381358, 11395409, 77949714, 12828128, 67837366 >>,
       << 17919925, 85525640, 110053556, 52928934, 10043577, 79442904, 76211608, 8359464, 58382413, 88911718, 129415186, 17543369, 31778964, 39148093, 35029610, 114207704, 42279780, 124291246, 107483814, 52741214, 94049798, 111655705, 98697391, 43788744, 42688984, 60768130, 36501299, 31354768, 10024377, 126641766, 27207628, 18268622, 104681369, 103367329, 78478184, 14626086, 20858851, 14181143, 22062036, 60339827, 62552858, 42148834, 54561191, 16205010, 71930575, 48088526, 129471080, 103392848, 27868462, 60655283 >>,
       << 41380361, 62189327, 35568761, 114418222, 16094525, 12136086, 21154777, 108393821, 92080722, 40831043, 110915743, 94583877, 93533379, 80973889, 5412975, 28859601, 112195920, 114967318, 43995720, 19907683, 12242388, 95449930, 33315361, 129976448, 47746984, 53183031, 68915391, 6570040, 90890014, 40109721, 34918995, 110070564, 132966365, 23336132, 4171767, 127788243, 54276605, 114702645, 60693413, 74618850, 100405389, 73835976, 33534652, 12713811, 62014395, 13677772, 107897195, 106543340, 18762704, 16301180 >>,
       << 1604831, 8277097, 111450687, 104818675, 131877942, 29835008, 17544302, 26592965, 110551574, 53765180, 49961172, 92111648, 84597104, 125839172, 86528158, 11279580, 78158177, 78667527, 34738319, 123135179, 109085068, 10064609, 2925970, 133836741, 8653290, 26541600, 121130973, 86702893, 59516344, 108622228, 17286109, 12345163, 121477508, 113719383, 111314301, 108567003, 44499873, 16445384, 5730602, 126470769, 61873691, 6796477, 22547129, 124034860, 77025433, 58137264, 110284747, 97231462, 53015826, 66588957 >>,
       << 3957046, 51369075, 91699285, 57265875, 23193791, 47505459, 28818707, 121910528, 25118997, 36907428, 37561442, 59862640, 118571135, 19948970, 4650569, 82423989, 83104469, 82809273, 32988674, 86876236, 39608344, 66960098, 55296657, 118484534, 73912181, 64294443, 8184472, 11773787, 37550897, 51407440, 18419506, 56268745, 26770773, 86255361, 118736050, 106998096, 70573568, 33440045, 84658420, 133424135, 107665177, 72968364, 106682457, 2621269, 132795505, 51338023, 104946957, 95746990, 48199211, 64382155 >>,
       << 73083942, 104882444, 65052579, 46175477, 122497435, 75920407, 67430081, 43165014, 52127652, 36297263, 24134478, 3498112, 42799022, 80143600, 29396392, 3933043, 120227513, 108808884, 104493639, 37706144, 7863981, 108535686, 133081081, 63308406, 71059199, 47973830, 102923813, 78381665, 134164812, 31240803, 130725364, 21424479, 13439803, 33266810, 88162850, 32366980, 35772648, 71630600, 109559939, 106198060, 123112483, 98926537, 7503932, 102549017, 133733476, 127211895, 29448924, 77268086, 113615989, 131891014 >>,
       << 107023966, 52133188, 47621071, 125521228, 112638503, 133082503, 113443629, 23315234, 23635791, 31749355, 79526622, 42681823, 108207704, 99066789, 93633852, 48155056, 122672319, 79398174, 3785821, 94415847, 94027679, 47201978, 127179180, 76188876, 75645982, 19072646, 75579195, 127287866, 25264294, 112299548, 132607948, 108770202, 118329886, 130243233, 66065552, 72762732, 41480401, 23562830, 65825262, 5095407, 12114140, 7538738, 31222178, 80753812, 29368039, 2674689, 70658723, 64154596, 91737, 44524582 >>,
       << 123197940, 82427773, 27040091, 108239271, 17514010, 45735904, 96225740, 23818260, 123316669, 107699585, 113317891, 116530126, 43431355, 7993466, 2941099, 19825571, 78733350, 94582741, 123107741, 19012298, 103933712, 14887509, 113612741, 70638102, 115517100, 48974686, 128924013, 9735027, 50142505, 94561490, 126422793, 88870866, 53095937, 78653825, 13560308, 45172462, 40502233, 43299069, 18314232, 130977802, 21139813, 98294624, 127331490, 58635481, 106279304, 85800828, 128937884, 65390879, 87131500, 42585056 >>,
       << 23381086, 94916484, 130022470, 75427317, 93088100, 119400119, 124667493, 82370625, 105628250, 47892314, 29962391, 89326148, 79047551, 109314197, 23535297, 50785855, 41181116, 98515137, 92408696, 39529438, 17092408, 23851602, 97822035, 241310, 127344183, 94221978, 127332111, 76884584, 52559853, 114186666, 133450422, 103459103, 129544795, 76166246, 4346338, 24438599, 80851238, 42710350, 123619656, 108556227, 129859904, 82058189, 29648058, 85851936, 75906869, 13973438, 125720107, 66596831, 18876833, 44448673 >>,
       << 100038288, 10443030, 31943272, 46548066, 131852765, 42885071, 22533467, 85387542, 118825672, 129262359, 11908603, 110281580, 95155780, 89929175, 85778910, 97883102, 119004620, 45063530, 59945655, 1529494, 35596211, 28143348, 33492807, 93036518, 9099261, 47040785, 34448045, 105632037, 14500158, 96692275, 171954, 6462242, 51799600, 58816911, 98325826, 56324902, 130070645, 22325567, 118722559, 55568711, 66180344, 118349254, 50829941, 47141449, 73286096, 50378298, 13613510, 111240589, 64355957, 105861547 >>,
       << 115970924, 77585294, 87371655, 101769725, 92229108, 30277201, 21831387, 60570772, 9893106, 107266078, 113516319, 4484588, 39581964, 2694823, 42777459, 35047967, 127729929, 14055958, 9959009, 45876720, 22831133, 119176117, 50393104, 21596235, 98245375, 10066654, 73423305, 126410838, 120544185, 131270511, 12496299, 45358959, 79729429, 132241519, 82362000, 119886787, 64791834, 94557013, 4159837, 57891237, 126492458, 87729428, 22145548, 81512791, 119420662, 58277389, 21086112, 7188130, 13590593, 44438762 >>,
       << 27588517, 130781542, 25499255, 54932613, 93576157, 74371711, 96910313, 124228385, 97975452, 72494408, 35603234, 88663948, 37785387, 39916439, 31883191, 12873617, 6661956, 52734442, 76741644, 73774469, 112723363, 65893962, 20614492, 7315517, 48429638, 512117, 57392300, 11761279, 39533757, 110581624, 88854850, 83898287, 80559564, 64468586, 26799898, 13017361, 3454186, 27776759, 22928708, 85656500, 39166271, 131138464, 10997276, 63561576, 113248768, 15503345, 41386492, 105344350, 53347164, 63209094 >>,
       << 65645462, 120108422, 88723294, 35568288, 12232184, 86149847, 73031359, 52013009, 24814337, 49797531, 118848817, 51196706, 49580252, 25042738, 59830944, 5988382, 35338986, 59020960, 62419022, 35353058, 30365724, 112350808, 36045780, 75731895, 8273096, 20284415, 100963291, 93478748, 89586100, 12979206, 11503440, 89676390, 46142898, 108472104, 72672055, 55564347, 130285891, 101529924, 79151743, 30536245, 74303190, 8185099, 112849885, 51956500, 109844488, 70139805, 56187845, 129604356, 71875527, 92216696 >>,
       << 116352544, 125676304, 63729850, 76868410, 118333579, 31627336, 63922841, 40111251, 10597167, 52989744, 121168704, 114613862, 95872488, 4661179, 67390918, 76667841, 120857032, 69366056, 107434625, 76703472, 90937192, 131903111, 83251648, 19790089, 16143959, 127406824, 101628154, 60269093, 23203422, 127380875, 132119635, 22436477, 130481761, 28439415, 108509761, 25867257, 16936398, 5727862, 56824417, 10518444, 132644687, 91687548, 58437492, 27101146, 133851209, 110402675, 84184877, 19847882, 111952096, 79865944 >>,
       << 34612921, 42916049, 122246108, 97590113, 122698348, 108359833, 8994192, 11680625, 52089786, 74673939, 53332084, 74095459, 43771998, 114974151, 37071046, 69751366, 61492815, 123099387, 117234656, 1659440, 105569039, 94007723, 83625419, 78863127, 70137085, 104916073, 56316931, 15102023, 55625517, 20084652, 19891032, 76046949, 78911183, 78205594, 101787689, 129497513, 126117686, 13449152, 124141757, 14178065, 75522135, 104628718, 13554707, 105460993, 38398732, 116430559, 71891508, 118129825, 46153339, 117828879 >>,
       << 55148727, 35451818, 51411224, 87884113, 65174087, 76775659, 81733516, 63491242, 5028557, 23112256, 36965460, 54086249, 19307578, 82979370, 81692326, 91377155, 93101637, 53917932, 5205303, 53122402, 119396629, 117971696, 44492381, 92679187, 31887353, 6615722, 100092846, 63782705, 123592379, 36048781, 120397511, 49988144, 2715612, 45347617, 109707681, 106522176, 40675347, 41734908, 37627490, 113124951, 65984013, 115190322, 93440079, 91919283, 13182514, 130526289, 116621787, 30595926, 18036919, 40329802 >>,
       << 130757517, 99820897, 59473299, 103888668, 110840131, 43066216, 36160937, 97817801, 55938288, 81198924, 86644900, 11983878, 25224301, 59286198, 28372352, 122598875, 110591305, 54649480, 99447927, 65023164, 101937464, 69323646, 116392133, 50185378, 110195089, 7543817, 69158328, 106232042, 21336920, 8806960, 41758234, 95236792, 68020910, 54141437, 18206610, 104759141, 114258926, 70368504, 118022022, 76325904, 3885356, 23318633, 25872271, 117464745, 111793963, 26941091, 112337108, 7734634, 33486016, 4438720 >>,
       << 61263503, 6785951, 123216044, 48368724, 94574367, 26724061, 36772637, 49439358, 110529143, 62306347, 67796914, 53276690, 85283260, 123892837, 16625933, 91425675, 4102122, 32472381, 49991642, 65603845, 79731181, 59874989, 23834879, 128918862, 116833951, 63697356, 78769733, 73998759, 46943979, 46204319, 21946425, 112427985, 120056673, 34716747, 100523861, 111517510, 92455954, 12132198, 38261364, 3684342, 51883966, 6664050, 21865061, 114597958, 76807176, 104667028, 129509049, 28765353, 115039516, 29709238 >>,
       << 86889858, 30214026, 90958716, 27746963, 36115786, 87454571, 54963125, 68891441, 2691381, 116048664, 104730584, 129807112, 103021867, 91563298, 1194267, 63632249, 122341531, 17758896, 86888739, 23246598, 80683906, 107490255, 1135982, 30033905, 33875271, 81650533, 108056755, 126567984, 40998106, 95662408, 129791823, 95209787, 86267144, 36960684, 56882385, 120189690, 50529679, 114297961, 46802956, 61605671, 33822694, 29287523, 62639147, 40553227, 90891729, 69878835, 110637125, 83698993, 53304911, 78448538 >>,
       << 13732098, 986174, 68654208, 134141140, 88899843, 129719481, 113183655, 112659464, 50228268, 75357498, 86884788, 79694801, 81745321, 37940248, 40060760, 91860376, 14509544, 64657836, 8568064, 45135227, 132655563, 37108953, 85979171, 43639158, 115627445, 37162866, 35050544, 88062882, 95441390, 127800482, 119772383, 87438349, 40103064, 25281262, 20123169, 69429969, 102740233, 32252798, 120753951, 7620167, 108102960, 115066919, 107691438, 108720248, 80535106, 54237172, 88654879, 42894071, 91369490, 18781020 >>,
       << 96808992, 3416548, 87966375, 66756250, 133878036, 39675382, 34819604, 121723609, 56178935, 54304344, 52113377, 98882508, 4740436, 78252116, 95035406, 133513585, 76778235, 109523639, 25489981, 46059101, 97515873, 95746805, 29845082, 92116057, 71757508, 85672999, 105347099, 63852097, 121671927, 126254315, 90176660, 48116670, 68090647, 40291467, 113470250, 22815223, 112828615, 88263548, 117641138, 74926784, 24311643, 39431028, 13100061, 63187139, 17172371, 99444450, 34715663, 97332902, 108494077, 75031958 >>,
       << 102397149, 122490422, 24571018, 127093904, 91229449, 120741081, 45047826, 87836731, 11985619, 29830361, 47685330, 29974566, 99886165, 116961654, 41216287, 56434872, 105775707, 119030126, 44468633, 49886371, 34971668, 78593968, 39466873, 62244897, 114247994, 15808361, 63154349, 7204398, 116285349, 85147289, 78326059, 77888306, 126741932, 83302863, 9558414, 63380252, 119376745, 26111227, 67172936, 16081422, 116433577, 91361707, 51226775, 71113720, 40044631, 55446317, 7256074, 116883393, 114654121, 20237141 >>,
       << 18436852, 133190674, 26883353, 45992373, 54920799, 132498613, 76424055, 119835643, 121684601, 132425821, 61414198, 19223220, 42464268, 115748555, 96055394, 24207075, 104547715, 10846331, 65441993, 44644768, 84695784, 132424629, 23732951, 42065724, 85161010, 7786452, 632635, 60673557, 36712288, 28102825, 102165632, 103823086, 22629881, 77346846, 102607270, 21264801, 65709924, 105389223, 102484518, 104656603, 11816709, 17368573, 82474074, 58211760, 85025258, 57634397, 54142556, 57582820, 129564109, 64075580 >>,
       << 51447859, 626681, 5063406, 71643088, 26764927, 98067400, 50076822, 127516051, 1889398, 119723071, 43246714, 101582383, 111834058, 71274148, 25578773, 2404661, 90831598, 553491, 84112495, 98462560, 33396474, 30368869, 93083315, 117706952, 46217844, 41888314, 17304799, 13785264, 51479273, 67556678, 79010042, 41086072, 22417070, 8762675, 110574447, 6136213, 40024028, 127300599, 39034245, 61193393, 97687945, 69831928, 80043415, 70345879, 45343466, 58205561, 119181858, 92178071, 133610045, 17956913 >>,
       << 46000822, 133699501, 120981682, 65790669, 48217837, 100678809, 25290114, 22130289, 127249727, 121721283, 123239443, 108985911, 54142310, 2566878, 30657783, 30107903, 97598947, 132188292, 17610141, 28345472, 98526096, 2941149, 79147232, 67730769, 22680748, 16530521, 49203071, 95443580, 87314051, 106317507, 5014834, 50357475, 117647762, 85942441, 34331441, 103515377, 71770706, 83635734, 6521231, 79715138, 133503721, 6437132, 88848098, 14510741, 87720360, 112222128, 2649695, 6473999, 92576644, 15541047 >>,
       << 55938669, 59634854, 51036796, 16588648, 73454998, 33921959, 63672398, 94203157, 20552371, 27581060, 93307094, 92038468, 84598956, 1248835, 40415166, 56488410, 88807116, 13553285, 88916958, 69834723, 36235719, 83590502, 81286864, 94049898, 18409776, 56213840, 111488320, 120610993, 14081350, 68663747, 96471169, 82906016, 15802066, 37944260, 15302505, 105328713, 14262473, 66805406, 26661903, 81738839, 26809908, 104415878, 35298445, 111601882, 70215481, 130609918, 27068117, 48039455, 94413682, 54996550 >>,
       << 39641367, 21524980, 5288944, 73569939, 66619601, 122185998, 27876214, 92369165, 125241829, 64513622, 44372866, 31474764, 367488, 1711195, 90145073, 11945758, 121719379, 14821786, 112102963, 77061479, 89794603, 66317520, 20017834, 127432487, 12090691, 104626238, 68679929, 10072800, 97115064, 97116760, 13594977, 121437433, 34345256, 86481420, 31025808, 61304112, 132696494, 131169771, 39731424, 35450260, 62314252, 6721650, 13396125, 109142959, 23448079, 117325145, 5294153, 114386882, 38999266, 48347193 >>,
       << 107588407, 90834066, 41970837, 57176108, 99125187, 15555976, 12750478, 114252290, 101764418, 119492971, 6159129, 1298197, 114353333, 18574987, 89034004, 86865529, 22885770, 44112109, 47986515, 120061464, 58749047, 128189896, 83457527, 36011877, 117906990, 98390714, 12475714, 50012498, 109382655, 45999465, 24544318, 15278272, 53791447, 53720675, 129159052, 61275585, 36484819, 112166875, 51769856, 92597136, 114175206, 64188958, 107360639, 56604960, 87086700, 118933534, 106959390, 22384662, 15174194, 17785402 >>,
       << 93438338, 97497249, 7871385, 131743983, 126495777, 113326718, 21393688, 13920137, 55838294, 122302785, 79289163, 64783521, 107678156, 76362294, 91052385, 58809216, 24328380, 82050405, 50969286, 104577661, 48130331, 82055138, 3867648, 115772960, 91867220, 118104922, 112546460, 97613685, 130653519, 119690377, 17536261, 64837853, 123533726, 65514730, 15158211, 119130840, 55201639, 59148126, 6170301, 8500820, 35113084, 87909064, 42176303, 1658959, 94565539, 116545584, 90990079, 70439867, 103015960, 99807498 >>,
       << 77396519, 97143240, 75834657, 30062746, 131250919, 128280127, 89904987, 117191345, 45405943, 69672379, 70209719, 92374229, 94030280, 82978636, 12783183, 58095862, 88813650, 97529576, 33363439, 64683506, 46405710, 89081734, 90770854, 86087848, 51657265, 19952062, 112613105, 110922606, 74939694, 119730518, 132579147, 82263926, 7323740, 1562947, 86355513, 125409209, 21062435, 67856130, 113930124, 62986894, 114336210, 66549837, 116690991, 22200132, 10048242, 100855227, 65987872, 43034742, 32331952, 44411953 >>,
       << 130210664, 37333618, 6757958, 68038903, 29891163, 73886264, 86344588, 50819877, 54126921, 109669749, 31541166, 10580463, 61618633, 59618021, 107543469, 76911446, 60142774, 11813825, 114969459, 66901651, 60004467, 42421060, 15932563, 131623398, 66756320, 100024280, 87694240, 2384932, 13776553, 54148754, 55343143, 4809280, 74776858, 73698792, 22778, 110851597, 12199793, 106271353, 81094790, 129274656, 83089652, 85568918, 40882445, 119468662, 68227936, 75475000, 27763104, 87858385, 90123764, 61231190 >>,
       << 127554506, 45748676, 48767001, 110771366, 7284695, 109600678, 29919562, 113322368, 60996586, 44556611, 75182173, 103000885, 83182506, 80524080, 63502927, 96188217, 88203489, 48760568, 96088283, 60737878, 15303956, 13077775, 101914198, 88437437, 29762393, 294869, 45816176, 47665946, 111385129, 85048563, 129444097, 107362467, 39189370, 73509785, 70059652, 50182714, 94233737, 14270328, 6144233, 120376809, 22032560, 66091781, 18850770, 110305317, 96214798, 99658124, 96846022, 54923338, 14356130, 34130133 >>,
       << 81987136, 26296134, 25171649, 16206227, 124851512, 114379592, 52733674, 28935933, 61343676, 110669783, 104880471, 25579048, 96205645, 45356673, 14464073, 101622864, 55629268, 6241172, 124369707, 84992096, 112402815, 90213341, 79028889, 16538199, 103635570, 119689243, 60465703, 61389561, 88376561, 79096676, 128337692, 67672253, 18070539, 129366395, 66951647, 582186, 71184297, 98812961, 6519170, 74252780, 125534952, 58090825, 112583992, 78533572, 64818030, 124066958, 68227286, 104834983, 123636312, 122162491 >>,
       << 23783708, 92854201, 77652255, 23306944, 98045333, 109420218, 17231111, 13898777, 51996696, 88251083, 80603922, 81357521, 118473433, 43197138, 67660514, 118298239, 51628545, 56192230, 131466366, 81737749, 122931391, 92947861, 102324194, 33318046, 36721417, 53401206, 129331335, 46017729, 130257184, 39483304, 60779921, 108018002, 17900864, 18546206, 55397759, 80869462, 93954326, 118975540, 100452153, 68759020, 40119441, 113155534, 94152972, 73525272, 115522211, 42132393, 95546158, 98894124, 125562305, 74300459 >>,
       << 84903891, 29171224, 26962876, 28147161, 83774355, 95883069, 39000919, 92155408, 46344519, 123640265, 90244472, 17806897, 131712620, 95347796, 87253117, 130886375, 128624399, 23865616, 67631432, 72811973, 93188975, 85480242, 43269298, 95341929, 15489430, 102109495, 47276557, 75467972, 64474159, 78222933, 76589761, 126523515, 89544328, 95311180, 56032939, 90495428, 100377240, 119972663, 112929360, 71659221, 38376603, 117773000, 113722827, 56691738, 108488831, 1714029, 70159631, 14290224, 3391969, 51119548 >>,
       << 19505421, 7122263, 89959993, 7597364, 26830448, 35833216, 100688128, 105432346, 21600382, 132007483, 38468887, 91723097, 33629729, 19653285, 112659920, 8325904, 92690071, 105274668, 39613096, 27380537, 101145667, 72634888, 4336089, 48141541, 109256749, 60746206, 13754633, 82692727, 116505735, 90667566, 99253000, 75414925, 116077059, 30106027, 99644950, 86854901, 75332458, 52195484, 31889524, 68574830, 105267926, 106949201, 107216040, 93432785, 38606206, 93004305, 89186817, 6305532, 124350686, 51215153 >>,
       << 52016704, 55910573, 128406364, 105778538, 130972708, 91959110, 41963706, 129631939, 74104909, 7221208, 1740164, 99813693, 33734435, 27257905, 83290380, 116615067, 104813964, 115486937, 116785273, 59467023, 111398497, 30272606, 122337630, 85065651, 94573712, 95233578, 86923747, 49357377, 101348840, 78971743, 73365441, 99113085, 80985229, 26369633, 104172652, 97296379, 129424789, 25970823, 39483865, 60238919, 23813700, 131996870, 91624920, 9995059, 25095571, 129181241, 23326387, 98660698, 68967357, 16019397 >>,
       << 50626689, 5453834, 57513345, 37461811, 74705402, 35465638, 17457234, 21599504, 78381281, 113550103, 34227688, 757677, 44367386, 62589932, 95252884, 125828375, 20777669, 5360735, 20629718, 124638372, 43302669, 80111922, 6825701, 103839014, 125142175, 83935292, 82625597, 113164332, 88837400, 40420315, 65840632, 106019681, 76863404, 73841249, 48061434, 9781894, 105230919, 94983411, 42662313, 70517332, 29522801, 128444717, 24678492, 69874593, 9150490, 105529794, 67798790, 21390345, 55825346, 72890984 >>,
       << 72079745, 54145722, 12340723, 46896070, 29688703, 118567503, 28635863, 89031246, 44544651, 44434998, 48425464, 39402883, 29319229, 127548217, 101019736, 82984217, 71202356, 63734252, 133765559, 75341065, 110553585, 100949683, 131685468, 87147586, 1181612, 15397719, 89783401, 46440312, 59816445, 32258945, 121399459, 86203262, 82369566, 123293384, 83366885, 32725927, 128700952, 5352233, 91610492, 118871294, 43075436, 51186964, 122934369, 106865038, 126834098, 15216804, 51791391, 34439001, 72509424, 97170361 >>,
       << 37960665, 3315946, 122317437, 69372824, 110341610, 103413997, 50326016, 69029393, 107752238, 68281335, 59801634, 65337822, 5885670, 39786693, 120565316, 87446634, 25838575, 42991650, 68973779, 11052218, 127266836, 12879054, 22467350, 130409805, 128349219, 103793054, 72205759, 71565674, 983894, 84145533, 8787479, 28290610, 89970857, 84492003, 103828454, 28611881, 116091738, 91993526, 56936428, 112161068, 13948820, 27592422, 72176148, 111232763, 94320550, 117928692, 131026556, 99505672, 104046487, 58416623 >>,
       << 86779969, 109622912, 126131259, 9679848, 100245989, 92079205, 20636590, 3188066, 61636167, 96216432, 44522084, 5085015, 11746856, 9831184, 7283737, 23889703, 106597704, 33810519, 74904794, 9454577, 77170132, 110275878, 30554079, 122270548, 34715141, 54711545, 52080854, 60549061, 84586329, 54284094, 58119636, 42467059, 2267067, 52278055, 90368626, 15878730, 71784254, 791740, 86090303, 96675107, 82993446, 8487605, 101463313, 100119852, 78598977, 6109168, 94070793, 113850354, 9742790, 48009699 >>,
       << 124560460, 67489633, 14245271, 38901209, 105614842, 92057075, 40446607, 81411889, 11610534, 37784631, 102713369, 124378344, 58743898, 51192463, 53031203, 110343396, 88680762, 4136476, 63617549, 20981381, 71600831, 29509878, 18304809, 100227613, 52478133, 106940717, 107036572, 114013589, 73245898, 39591339, 128867039, 85100169, 19337491, 40004466, 90904196, 119048187, 122697674, 129569149, 106705391, 116385422, 97888287, 86965116, 50080729, 128498931, 127435049, 1496555, 74292758, 117409229, 74500200, 18974879 >>,
       << 16540343, 5606696, 675093, 76868988, 80081663, 52892750, 72095327, 73487621, 127101422, 11425533, 40894954, 28192821, 100434667, 99513114, 121271941, 97433661, 46150987, 28418851, 55385548, 121551336, 86695458, 114280872, 68793658, 19120002, 21602928, 24695085, 29633659, 82796892, 112038029, 33922427, 26082023, 15384377, 24341456, 90057130, 107328555, 76140729, 114387210, 7299874, 114271325, 100803125, 125140564, 132885807, 133454438, 73665549, 61909967, 86526748, 73774735, 9817298, 39010740, 90152068 >>,
       << 9041276, 33646722, 13180503, 26496940, 97386941, 77926229, 65389589, 127713524, 44406060, 47934299, 17208745, 90099765, 87976094, 31478466, 13427820, 38270459, 83150000, 9369589, 120811872, 25970938, 42652506, 65211190, 60484679, 44069864, 82724080, 88506156, 41027069, 93074374, 78405961, 20454105, 75907105, 76082915, 48921480, 108407627, 42457517, 128669022, 57486445, 22634412, 648524, 42038976, 33041067, 105449515, 29732676, 95589748, 99296451, 86011893, 58535581, 37135338, 112757663, 48249394 >>,
       << 18026223, 91211707, 98377943, 44501625, 117827841, 64418331, 62122457, 59774935, 48149482, 103987461, 40999730, 65360192, 74044139, 14607269, 23591471, 86644469, 81420187, 11002322, 112983543, 37663633, 115254595, 110923392, 18790705, 119627863, 72292089, 26364647, 35330756, 98454691, 118961981, 84103363, 10262606, 97633380, 10120010, 119736331, 2500515, 114029673, 68072320, 84775473, 4186818, 109071016, 78100019, 77698748, 54376227, 103240310, 79193333, 28556255, 121642007, 4919926, 74033693, 34979330 >>,
       << 72943217, 119988760, 134047026, 72434236, 63364719, 87766064, 104045212, 19949181, 49099345, 52680236, 29971710, 119646721, 103635526, 79134873, 98412038, 115046625, 39057246, 17969238, 62371131, 67259613, 68506338, 12153955, 53255602, 48837208, 67399750, 1421591, 88943201, 32062038, 113814195, 129385925, 108251973, 131782105, 82414513, 91826623, 22259144, 101630478, 69006257, 18840235, 59890694, 21370471, 24044459, 76015183, 127333946, 75942072, 88504955, 117064051, 129887268, 19622504, 98773484, 98247977 >>,
       << 64894729, 126053969, 48156722, 5425057, 29369404, 102203092, 65450221, 31104946, 8437082, 35481411, 49584751, 31409454, 5745651, 89736040, 27752746, 69509378, 121832933, 106228024, 48486337, 52088975, 63038607, 123198713, 61021210, 118319904, 6232730, 5355917, 131612532, 87043518, 43496088, 13854626, 94453880, 129982004, 69977486, 85035920, 111353356, 36707919, 112054658, 99577435, 35341684, 77662596, 73061428, 76525600, 23333727, 50554391, 87734815, 50803895, 49029303, 78876916, 87689346, 120557935 >>,
       << 112134760, 10447168, 69345320, 33767356, 50509993, 130550108, 121768017, 29917031, 69306247, 54471218, 47365168, 109687661, 116463329, 46309454, 65345452, 106388682, 64707720, 119074202, 81095825, 885526, 67355419, 118384632, 18652010, 59042204, 22227237, 30868838, 10346606, 69060560, 86366021, 37689614, 28389345, 20164926, 25086055, 21120146, 48616740, 80801793, 96274739, 109649854, 15882013, 88732634, 30916561, 55648506, 108873747, 44322017, 96671078, 15212062, 64628070, 90627759, 64265413, 64293132 >>,
       << 28280205, 79294612, 21642106, 86873663, 111852356, 55149958, 3012656, 32704875, 5790734, 17164449, 76972056, 79503557, 21626387, 18082355, 84495485, 68805754, 5260108, 119560839, 76808685, 19711900, 7504382, 22325960, 34663022, 123808723, 24164229, 69342339, 128612572, 54419425, 80444404, 130089685, 75645742, 85580271, 2499138, 117911479, 96576003, 97707058, 88817918, 110233464, 38044635, 127138262, 11508969, 29070676, 60291054, 81406527, 133248115, 63272042, 116407357, 64648438, 22893086, 29442512 >>,
       << 111449512, 55132193, 80643207, 19154498, 106651563, 78201440, 110119361, 103010779, 24412077, 83646063, 88536556, 68559074, 35503367, 22511225, 97198706, 92018488, 45992559, 123795982, 60863732, 80065352, 79268452, 9239937, 30845084, 50762668, 51735818, 17745355, 14572034, 2222998, 27158762, 70157128, 115372443, 122049444, 67693989, 91854295, 56343932, 110932856, 20073763, 81270313, 12924976, 23813202, 63870080, 121011806, 82510102, 80505645, 5239398, 117809964, 105209013, 71327320, 67555702, 100983157 >>,
       << 15772785, 12507745, 64725282, 88502178, 17492440, 121062344, 80996996, 72381739, 111068093, 161088, 120389134, 125860639, 104001347, 91074695, 87138408, 57914523, 70067590, 56463253, 49711219, 117416930, 5830187, 93636032, 71110769, 57573535, 30801123, 125952818, 107682909, 64709513, 105972356, 103169365, 51168696, 47045704, 79060695, 107994407, 99508223, 121850755, 102212064, 112365808, 93510511, 77325627, 13115341, 57108220, 17969486, 34160831, 64040812, 102791840, 31207351, 122149588, 115300175, 11249805 >>,
       << 38019408, 80301439, 117677582, 72978342, 54847632, 34601998, 25369971, 734097, 95180345, 99810433, 105954492, 954835, 77576121, 70134216, 15814687, 69761254, 965569, 50335658, 87851693, 27570830, 92310488, 107949594, 42399610, 54874257, 48623028, 14305357, 20774029, 57186360, 87453041, 78567056, 34042008, 35071480, 114753060, 71954780, 56849468, 75788756, 49075919, 82125234, 36985109, 133116964, 91349351, 53345392, 101330613, 27339300, 55462544, 74102271, 105198300, 74834795, 64755726, 23987338 >>,
       << 49689143, 75040303, 74478941, 64929189, 34061458, 132675333, 41158280, 77531025, 46218720, 103910624, 94689883, 53436070, 98755046, 18531242, 114756012, 115941370, 88487446, 15983420, 100369922, 30839382, 59940949, 105107145, 93859992, 127405531, 21715773, 13459168, 28784084, 68228715, 53762374, 105506022, 45424358, 107488768, 73897088, 82413089, 93557461, 91880684, 94863739, 6986408, 21573890, 52224611, 129462427, 85345915, 710096, 107960628, 12225702, 110495478, 19505652, 63306295, 124267065, 80563579 >>,
       << 58435370, 11830043, 8600733, 35311610, 29765498, 49772648, 10742751, 81742470, 5067435, 97240034, 51583363, 124914424, 132130387, 53773642, 82405066, 88070348, 69928180, 38449249, 95510117, 129322783, 80191410, 7712557, 126931833, 103831968, 110089237, 23524492, 85938445, 66353000, 58917831, 1437525, 27072687, 114161255, 88165507, 124924286, 107898961, 69545356, 38387144, 26138432, 4510970, 105221255, 80465529, 68524572, 69231333, 93744336, 31094351, 82569402, 22747608, 90466021, 4840043, 48283485 >>,
       << 32112480, 87915178, 38556, 130948976, 21131878, 11655844, 133790532, 37035619, 104645922, 53611082, 47395992, 89880518, 53035211, 54418707, 78662348, 26885204, 69490249, 2062459, 98908471, 94438536, 9209640, 123369905, 12101856, 73765077, 38184109, 97460687, 111369146, 75042992, 122810425, 78239864, 46720553, 46637316, 129290281, 109456554, 37112255, 30372869, 81384718, 129259341, 26108729, 61036720, 124784079, 54218119, 77162674, 624307, 35045256, 23492771, 54644684, 67946127, 14289484, 74978145 >>,
       << 9715480, 67534222, 39493811, 45629449, 127106264, 15704681, 107769083, 68892172, 128407355, 34587020, 117589902, 72196170, 109138789, 106486903, 77160950, 33573422, 93172854, 59427400, 129661768, 50610858, 75587210, 64911705, 103343247, 32651583, 101666343, 45588495, 129015277, 104099109, 61585593, 91482088, 61836850, 120329390, 78762521, 115698806, 3670948, 64688940, 15605267, 34603983, 9066979, 51361533, 85048646, 105851618, 133439001, 29579214, 90853721, 94110263, 30860700, 107395844, 42376656, 55354876 >>,
       << 128237749, 47391778, 69324022, 71893982, 1305024, 94062273, 111692912, 35346197, 33320572, 38559355, 12483514, 53543563, 90422203, 100500641, 110202779, 45901507, 10204415, 74430642, 125009887, 23955951, 63962190, 42127291, 47451057, 29335449, 120033095, 77002404, 36114740, 24532913, 127120040, 100147397, 91685110, 124856747, 122128396, 25523849, 66974557, 98933531, 26798789, 31522559, 98707618, 32488275, 117137515, 35622106, 27753358, 30763714, 27214866, 112063814, 33513553, 112250944, 83026670, 47785185 >>,
       << 20937370, 104547353, 14319594, 16089818, 123505560, 10534423, 90705967, 128282577, 89043272, 66124358, 82386462, 889014, 102575121, 115036583, 72675403, 128579656, 5672460, 113818055, 64732147, 49821155, 83304578, 42334540, 66080806, 120543786, 132252958, 118244106, 120393271, 77110685, 116604179, 36874043, 65874779, 24544645, 132123217, 102577552, 122944355, 68603195, 37616749, 53402482, 29808788, 100686030, 77398691, 17212880, 7267644, 70563016, 107276192, 56797703, 64199033, 126118281, 72580645, 4370484 >>,
       << 67441081, 46612335, 52843790, 115480950, 92118813, 104140067, 23461307, 61363812, 131064577, 16155543, 93716799, 69552316, 61749629, 42365995, 92504274, 1129926, 1586450, 90476581, 28286706, 50925964, 77981603, 13522144, 43679307, 48533442, 82245683, 115674478, 34856447, 25119175, 73626933, 35279000, 31828278, 36159360, 63262903, 128651291, 82286747, 46049627, 49113508, 24684475, 66943778, 56900650, 28257191, 56249702, 94048056, 100958006, 49970552, 48999937, 114665706, 53766628, 37531240, 60495821 >>,
       << 24144323, 76693314, 17601200, 131435723, 77295013, 92074960, 30677709, 109278821, 13404289, 96746213, 36231955, 107922808, 31649234, 74536479, 58011418, 114931813, 51121302, 26315159, 19574814, 107379209, 128734654, 99125431, 20072000, 63483243, 108134977, 1307588, 23703827, 56575546, 67054885, 18048483, 133622038, 119892724, 114003184, 84644676, 69391501, 71669929, 96711970, 42376193, 105405602, 65313057, 40269906, 33685164, 75448945, 115226185, 76213459, 6403434, 53472598, 13284172, 92683136, 21923376 >>,
       << 8057946, 28919534, 109228812, 34130183, 63960038, 112604876, 84538675, 12925420, 60378491, 99937610, 44916840, 34865621, 48447502, 48359530, 75208908, 74825240, 125070061, 108718491, 34589898, 46189726, 2662253, 55265613, 16272220, 47122567, 116416240, 91212468, 129267316, 81279039, 26703705, 77424000, 77295245, 87223468, 87124881, 72267959, 23426205, 131449236, 104731314, 38199537, 47661928, 43632879, 90354413, 68510704, 65430302, 103984428, 98854868, 59985944, 119404446, 10523679, 51146483, 82364557 >>,
       << 38456543, 62243750, 84786974, 128391931, 19441214, 116535569, 22491607, 85977279, 108409959, 124630108, 45283492, 56615250, 84728082, 82182875, 76723896, 54327674, 113937532, 121745284, 9575640, 10618223, 21743203, 46120632, 30630893, 42074850, 42530677, 87645934, 39105187, 95352768, 35899536, 81253395, 86522692, 53077115, 36406303, 119143977, 59713250, 104820560, 115803925, 125999554, 48743159, 100380834, 78775038, 69918804, 129590710, 60436720, 55564671, 22457056, 24680787, 114650373, 3100576, 16782572 >>,
       << 97679960, 31491128, 88855162, 33775489, 126223362, 99841258, 94045949, 100628364, 10746107, 28262427, 22402343, 53290556, 13825676, 12825003, 8562070, 125734316, 117935906, 63509922, 73609531, 7224328, 3538638, 103472970, 53286118, 70327779, 102676074, 133682700, 11173787, 13949034, 35225746, 82960269, 20840572, 11316066, 87890153, 125035836, 118845948, 52324272, 41523026, 30783635, 33204998, 98998087, 38141360, 59479985, 84084814, 16966692, 17619715, 70698159, 112543951, 22898616, 3834774, 4718421 >>,
       << 89060057, 47894420, 115476747, 122845780, 43647781, 115996482, 63908407, 62705646, 130859807, 116889987, 72555977, 125474459, 36562845, 73624500, 59706076, 18134815, 130129759, 127303653, 93633357, 72381952, 23761455, 79299984, 80206393, 61276220, 84697764, 100517213, 85342494, 117748368, 75696716, 58381674, 70257585, 85870691, 85836028, 71643293, 41562039, 121993600, 46596140, 64646194, 72433029, 30484663, 108006048, 12019737, 59305486, 41321368, 49094606, 55325058, 34870711, 20900054, 40744867, 1416778 >>,
       << 12394, 70238316, 109438422, 101776423, 113809451, 18293937, 46155452, 38488577, 62974683, 71819757, 1116303, 92310921, 123760609, 66025948, 127098485, 101397829, 64030858, 40213043, 1225756, 102793224, 57772049, 107101019, 39315407, 80128487, 31033204, 106940308, 968781, 73579795, 50149632, 25309568, 55262252, 118401788, 75236332, 58667423, 52982727, 33540489, 21913660, 95957351, 98934283, 86703417, 52307771, 111189570, 50782359, 29607414, 35296615, 10631350, 56672010, 83929434, 32153442, 69338228 >>,
       << 102614592, 107368688, 122132012, 82304487, 108390873, 93136977, 91890864, 36489118, 38208680, 87034430, 99713959, 71396350, 108556459, 36080681, 55419020, 25233016, 114552418, 9189076, 24482277, 18337367, 38868823, 14811778, 85482292, 61115104, 82910238, 60769389, 36525224, 94015840, 83584597, 66034587, 25204672, 43036072, 2603206, 20421134, 6661503, 130153107, 71802559, 2970357, 24956121, 130504273, 13726915, 37864772, 36130759, 16782477, 95991974, 58843284, 97590659, 1101134, 31247296, 12106034 >>,
       << 20224423, 1976335, 66247126, 29150491, 45890766, 56404064, 41819114, 105458269, 107302020, 66893545, 133944386, 49848072, 62234675, 93541005, 106223227, 4259684, 44325223, 10767361, 113218867, 100739743, 127727501, 19607576, 7521339, 35769504, 104106371, 52669959, 9581091, 72905989, 63102032, 24374441, 25795612, 120218681, 112949491, 33565097, 109689535, 51214452, 111166108, 1693222, 16369402, 130808396, 103098766, 95923064, 33415162, 51646699, 103512111, 130858555, 59453211, 33173547, 99001547, 133484283 >>,
       << 4497675, 26733470, 61852177, 98693352, 103481327, 12611138, 69946108, 89390064, 131817358, 27977300, 63461570, 52227199, 91461639, 129011945, 41890609, 125656683, 43360807, 21288466, 84444996, 97742326, 5662097, 99955240, 125818506, 73763371, 69917538, 16393556, 33999060, 64589542, 85700705, 40106013, 26672234, 48375646, 119120861, 6991067, 115918169, 89482259, 29231043, 130630633, 15157001, 31670798, 84947603, 58272190, 43555463, 2022353, 22462726, 106621274, 37057520, 78476684, 16059096, 53124490 >>,
       << 105917085, 32626898, 1198544, 130034823, 5636254, 77990837, 105156266, 92711085, 63789750, 92396361, 80022258, 20802666, 49848284, 103454622, 12009789, 33382936, 21165928, 67098020, 12267708, 92065931, 83033107, 45422244, 124936408, 130144448, 133811464, 101946439, 83903841, 8060088, 8022882, 47716774, 86513378, 20658582, 94130669, 71988124, 106228801, 14413864, 16888275, 65477163, 31229060, 42512063, 131758283, 74940527, 105838976, 86522918, 101562222, 46616197, 108115785, 119694826, 58883853, 98406939 >>,
       << 25899364, 2865928, 92509566, 50703288, 48072427, 97227209, 18083446, 33647879, 120616512, 5300062, 65136149, 94841733, 58720256, 75031037, 39555923, 72844534, 93554826, 65779034, 25471281, 76061419, 25048615, 72963514, 46662763, 43443711, 98301387, 62866875, 36953423, 116455600, 111581853, 80353461, 122738622, 115502523, 74426456, 21520928, 9244458, 71288059, 20807167, 60315326, 39684512, 109980496, 35346140, 72693120, 49273033, 60945449, 96613, 104141938, 85634408, 67908497, 50874366, 98469875 >>,
       << 24901990, 118505177, 2512536, 83179370, 115001680, 48865345, 104155180, 83241474, 32049389, 43042832, 96771460, 8501586, 88354109, 129810441, 72337519, 109930994, 52008140, 25483846, 70339453, 91700797, 66779917, 102775090, 74016756, 20687181, 82280734, 38000942, 43298644, 55003032, 86020669, 43221337, 14826245, 12919301, 70222787, 88434857, 8949617, 5875684, 112097754, 125869323, 17418007, 23976493, 117238216, 4197492, 27122588, 14368701, 65145297, 25718350, 13254482, 4270425, 76639957, 86134450 >>,
       << 112246222, 52156850, 88304696, 65754558, 70574548, 83747900, 94128774, 79228847, 34351488, 6588161, 49171204, 29624910, 81329718, 96347551, 9512542, 1756387, 124850811, 123619253, 28016352, 88013189, 65955329, 124608237, 119422548, 111679578, 10731620, 62821834, 107511077, 85753950, 8147041, 48442674, 74896161, 99787852, 125928958, 119511573, 55828293, 110330531, 49535555, 106602373, 95084373, 7824896, 110547487, 82803389, 35677170, 71003974, 5456373, 98556123, 9447334, 111998855, 40789378, 10460308 >>,
       << 126782533, 28977615, 128927770, 69724133, 13035125, 13586205, 97330929, 31006711, 71358338, 51718263, 25428946, 25920053, 70624297, 88164473, 33388408, 76507818, 83929707, 127171746, 24011268, 74950330, 100555164, 74912498, 55725133, 100140971, 14161873, 102848819, 85714702, 77385064, 48045029, 90528859, 61568435, 94294720, 89287317, 57321034, 118490634, 13972387, 22388767, 106362395, 24212413, 73815115, 53896091, 67738718, 45300210, 88252435, 21230084, 71658908, 134007485, 80519326, 59460086, 125294929 >>,
       << 47288136, 121129482, 42299387, 73830667, 133071909, 133794984, 43574336, 113394386, 49891348, 55343779, 102567089, 84992144, 57792552, 110884643, 97424311, 43412847, 81659860, 32309234, 75584002, 73232714, 28712948, 50340113, 102771617, 73851788, 124305335, 99935614, 34103265, 48319528, 129070716, 60720566, 60062404, 128825454, 53296593, 26256, 97484118, 4652375, 131930184, 38182550, 79961933, 2188077, 69472352, 18130896, 133333502, 119497339, 40512501, 881653, 40310141, 132123183, 29781129, 28833029 >>,
       << 114852851, 42265790, 2912708, 103552073, 110318908, 126614012, 92572541, 110372265, 37038339, 123361135, 74311410, 68621697, 74668420, 76593789, 124275207, 76720441, 20765467, 12655004, 5064880, 61789789, 47735307, 20952341, 18576833, 35566111, 49269031, 119403493, 78135616, 33535226, 31271945, 34392465, 108860541, 40305910, 12335296, 76569490, 53660012, 76378602, 123196010, 29183937, 98551508, 10361818, 97117334, 43579429, 106421799, 64764506, 23206579, 65535348, 110824281, 120664971, 92555887, 94334647 >>,
       << 77340611, 109993476, 121823478, 12799546, 79890579, 86201956, 40318100, 5015930, 98084887, 108493715, 77347488, 51210252, 10533057, 104706190, 7505818, 123731497, 103468648, 44881018, 46698401, 118083750, 109674902, 58291349, 55904597, 124855515, 116478318, 16178675, 116740769, 103400003, 30429530, 100351730, 87614538, 114015029, 80839556, 124641718, 1534696, 85078886, 104343360, 84851591, 51336531, 7264930, 40907334, 70381542, 5527388, 42857940, 72468141, 75821325, 20076290, 43866598, 67431202, 93652923 >>,
       << 29634895, 20561818, 6780654, 90413791, 98190813, 133864373, 52731823, 130330815, 59809598, 101044501, 79877290, 77209399, 67743626, 12090729, 29807828, 57973424, 38894019, 105544566, 52925057, 19865888, 17742113, 45119729, 11079017, 63868130, 76697457, 100034491, 6618423, 73571770, 53578549, 35239935, 11419108, 53489393, 67353558, 58316409, 103861051, 93666595, 17498659, 102278327, 18102047, 64548325, 75067462, 26589676, 65479608, 53058791, 87543303, 76682706, 26320002, 75318641, 82677695, 133825646 >>,
       << 98739654, 70363346, 33050557, 32522981, 9615892, 35736421, 104256559, 57722445, 43407575, 91903974, 124035713, 77311859, 12025190, 15103503, 90160430, 55510043, 56846657, 49025393, 46749089, 25567100, 43048774, 46241350, 79708841, 87967622, 3248985, 103304874, 40912093, 22717056, 132560396, 46938140, 82707781, 110271144, 132896915, 107749458, 59352435, 83642093, 19571424, 59118000, 6023362, 124045796, 109813176, 31338443, 26801295, 91987358, 50173377, 20936786, 101701306, 97775836, 114456066, 11517819 >>,
       << 15082279, 99264966, 7319968, 32621391, 127364693, 83349536, 124383554, 19820881, 116601966, 111728843, 110076516, 38612439, 1843251, 46073103, 93119618, 107948738, 14935479, 40952251, 60406241, 63242092, 3053200, 44543739, 28052785, 99322861, 72209870, 28437423, 27353754, 73339816, 70231557, 100710963, 34716489, 73658696, 64830696, 83623280, 97968684, 133184537, 18971329, 93290869, 93785339, 89692417, 2468064, 50547291, 78249598, 121606668, 89057266, 70705777, 5836056, 34286770, 22859916, 8067834 >>,
       << 38119652, 26936968, 105923086, 93486229, 82941828, 36410780, 7124981, 62405984, 87880113, 126859440, 1118594, 8938604, 52163068, 88633740, 36414662, 88983888, 114364636, 122523173, 88597172, 48347794, 116002003, 14480943, 2560649, 39258091, 116421858, 118568251, 87162488, 51878269, 31026926, 131505570, 51096850, 68255127, 131078635, 95252818, 13368583, 121315654, 42339783, 65050252, 116336268, 80142265, 71344862, 11813934, 25020518, 26692577, 67196215, 129760541, 61469875, 75254207, 124332588, 95625996 >>,
       << 2884132, 5335477, 33204410, 123784999, 71056927, 40926679, 44770958, 65757673, 52801229, 99910431, 21072888, 2465878, 46544010, 91846715, 47232974, 47698045, 83917080, 40577537, 31702866, 133680106, 131297722, 131343834, 67276832, 37027755, 108970415, 8322800, 83992429, 34585138, 117934067, 51965156, 119507744, 134211258, 109368474, 132924082, 3954845, 126719882, 74482698, 127388249, 37606981, 30277197, 20361927, 45873760, 120416832, 52726977, 88171888, 18422816, 11783647, 97964132, 51298971, 69889565 >>,
       << 128930313, 90998934, 82201431, 117132008, 83956490, 92143599, 30524866, 56013532, 32260681, 76893142, 20501644, 57239162, 130263294, 41927304, 122102617, 81251236, 44195849, 60286467, 72777382, 17686156, 27750491, 87573396, 18599426, 77984620, 72659280, 91811453, 107388283, 27153619, 115774556, 18536762, 41473062, 92413212, 94641803, 120613844, 70303981, 122079441, 18153282, 57722252, 133638685, 122004195, 130966559, 103354361, 19482024, 88077934, 125229159, 75812116, 123092705, 21212832, 42613620, 9101846 >>,
       << 74804948, 71532887, 127319146, 96561670, 15889673, 24714210, 42627226, 112678803, 118063030, 19531743, 97586963, 3957187, 102734948, 42773504, 118129303, 130579895, 55571528, 129009568, 55197277, 40714693, 59459055, 100074043, 125328289, 110286507, 120008109, 85476210, 125258698, 99098265, 36748299, 20395330, 104570090, 25224021, 14330619, 17655789, 24796255, 3516265, 102333968, 132332719, 82138779, 82805158, 35817693, 81282861, 76107235, 82189839, 30992396, 80042177, 31163012, 30992534, 92258298, 3501001 >>,
       << 48219240, 10667011, 92360759, 104666507, 63968467, 17996802, 67420864, 113566751, 81163038, 62916371, 95565589, 87183615, 50191981, 24692904, 114370876, 52004039, 65960711, 63598657, 18456645, 21983035, 25938895, 30369856, 4325777, 54839908, 102614667, 130032159, 2015179, 124209794, 36219821, 127533422, 55437830, 29870720, 99638766, 90105606, 132639786, 27223861, 101707052, 27455861, 8876667, 23767033, 124433685, 128137539, 132288702, 58959861, 116384084, 82820305, 65759022, 92323369, 43606752, 116336558 >>,
       << 61410640, 119129899, 33122766, 57385552, 54340297, 104181776, 5613827, 81594977, 98694560, 110639500, 51052956, 96663730, 41996390, 52902012, 82074794, 126049120, 99652348, 76763742, 79699265, 71962094, 70495248, 86086421, 117545600, 94504386, 105618596, 5168989, 69880338, 14672184, 60614013, 61324136, 110999416, 117811888, 5692967, 117813628, 133658895, 32980201, 69619091, 72191574, 53098035, 132047513, 98672858, 5268263, 74853354, 51995659, 69273350, 102698019, 84644215, 129196953, 6616323, 25481281 >>,
       << 39081432, 58995922, 53424009, 118701833, 40876565, 103841170, 111081411, 38374806, 61920968, 22345453, 56701914, 39516346, 82293489, 123350497, 7321129, 92603918, 69386491, 121289292, 19091078, 62220513, 111386420, 86718276, 60625891, 12138759, 96992010, 67197151, 15189633, 24128507, 104519524, 78577462, 125875083, 120034674, 93430858, 73337520, 18160554, 52756521, 55506990, 43414191, 60516875, 3343647, 24008676, 60891997, 79230801, 120341964, 95648168, 120231557, 27102854, 118453647, 61026547, 12103709 >>,
       << 33565477, 43496580, 92840741, 87050454, 121757284, 95491852, 106902571, 22010905, 96418622, 98416804, 16581824, 12239481, 15322958, 94788144, 60317234, 85103759, 48713437, 11449650, 70305568, 94929396, 51551334, 97559354, 106175160, 130887977, 68674708, 82150984, 127473809, 21461370, 50825385, 73866174, 51084208, 5892974, 103114155, 22935793, 122440495, 44988861, 75898994, 116944631, 88520663, 115785940, 20144703, 21759927, 116610850, 19408873, 24007090, 103234477, 95569396, 6886777, 56315301, 41347409 >>,
       << 41542843, 98000650, 103163828, 128978688, 59895766, 38759467, 84081078, 24252610, 15777827, 120600254, 17659164, 128907253, 27226295, 474177, 83558632, 102729686, 33971980, 1638498, 61557975, 66790446, 114811328, 66926628, 72947490, 108374717, 771825, 81602221, 118474380, 66231992, 31927492, 29108314, 79035763, 88512648, 63848982, 60899748, 55049584, 59307507, 10657547, 80693921, 80544341, 882216, 32844845, 118402566, 73462947, 37327686, 83183589, 84374018, 74832912, 110074829, 110763516, 27868647 >>,
       << 6565770, 24808803, 19898606, 7390556, 87681338, 46844649, 4928616, 19511823, 114599027, 4352961, 89522760, 77590290, 112476393, 80971604, 40056146, 44440977, 123531943, 11771255, 6580878, 14614652, 55963010, 133376878, 23924094, 21654047, 90206459, 38168910, 82019078, 88707799, 92813386, 93931849, 79855385, 76810468, 105670634, 75454146, 23812810, 129693686, 61114408, 100574015, 77707540, 48343701, 125021105, 4810369, 12499198, 103147932, 40170625, 43328415, 49468550, 120464407, 50860378, 110094070 >>,
       << 9082067, 101796360, 57354434, 113187102, 73882978, 8714202, 39303341, 63191967, 18058430, 16377680, 93230242, 115347781, 36831833, 44185620, 70739820, 55533646, 70416822, 28164968, 93392654, 28058347, 82148463, 7809403, 14670297, 76687590, 97942503, 131446124, 84420078, 70994013, 132498300, 11766833, 64916146, 97183585, 92429612, 81171931, 125344818, 105788378, 132376051, 94865847, 38545627, 57318164, 81717739, 113789517, 42478375, 34850980, 70516816, 77194344, 133549905, 83650413, 47493391, 124433976 >>,
       << 17409802, 82448605, 75515502, 66625267, 69753731, 97869519, 84806492, 66805681, 66102828, 108445288, 24146739, 118603331, 81793056, 31235369, 95104946, 38988647, 131433738, 25978571, 212187, 15865493, 3219453, 62395893, 83947919, 106935633, 15827722, 98981329, 113826000, 27827473, 107315710, 82585240, 134081766, 55650977, 55571661, 6105858, 44800838, 46929234, 75217695, 108185329, 85564277, 28499515, 1516293, 85982334, 27002880, 92612522, 37799296, 34147341, 106058245, 9104802, 41308532, 40303435 >>,
       << 68006730, 73818891, 43476321, 102949373, 822924, 15278911, 92051321, 44732472, 45816776, 53156840, 97226871, 76359356, 82677226, 128864162, 3908068, 111674890, 23572537, 26040330, 44360949, 111914137, 45357116, 123786294, 90257792, 64304823, 122965323, 63686372, 107005672, 4772547, 86657974, 18220579, 64625235, 20855594, 84181424, 61823092, 119730041, 116128446, 72070563, 120249501, 44977656, 62071682, 105225226, 109275594, 55559839, 124525862, 99668024, 7519183, 112085994, 69937264, 40177237, 75825317 >>,
       << 97303041, 91026144, 42346074, 74514623, 71925331, 2512345, 27952515, 77496999, 92005353, 44522609, 107311815, 122968463, 119189297, 106808159, 47458790, 8886963, 130139293, 20039365, 37642707, 112842099, 4183991, 45520266, 132019076, 50363964, 84088862, 71708931, 113065789, 22276047, 76635858, 81294213, 52286700, 25149571, 79885300, 15682621, 116043800, 105004425, 100870019, 41376831, 94659224, 115134581, 42211394, 95273114, 4245067, 36439766, 55548633, 11649801, 66713516, 117715488, 31895802, 49873103 >>,
       << 60653840, 111327896, 127604384, 40618137, 29009803, 70477785, 40576475, 23489813, 15063426, 50226379, 105353398, 5019076, 104393259, 27125189, 122588278, 12429114, 59562350, 67913458, 3346688, 107243357, 64781956, 121461111, 67116153, 20679969, 25529779, 45649583, 123968428, 64890505, 98306575, 117290066, 70280155, 41655640, 104090305, 43934556, 19232735, 103278044, 117010879, 13187101, 110345563, 131838513, 125899429, 69276026, 90827456, 133240669, 17812995, 27539747, 97250224, 4905998, 61655384, 52021209 >>,
       << 95788157, 116072860, 70107942, 15547243, 551617, 41739205, 125136200, 5909601, 92214602, 113833279, 79763928, 117021094, 11687128, 44733393, 62663022, 119344508, 6192775, 13838227, 69870757, 102834963, 88447373, 100066661, 41940463, 3017249, 77518768, 101803317, 41895110, 85745109, 119740411, 28165011, 43067834, 26918105, 25843038, 38462422, 37131272, 71440849, 42835559, 103721728, 59205536, 90076744, 15790828, 36595028, 20041488, 21138757, 36726921, 15362614, 2047721, 128620587, 83610257, 75111698 >>,
       << 68996054, 13740579, 27726346, 72816971, 47018904, 73734610, 42746321, 36379997, 18999435, 126604605, 94536752, 107911434, 38019546, 77052108, 32859865, 22988138, 9562056, 41792388, 82310750, 119754842, 45464764, 72555030, 59545378, 6808353, 17458237, 3891332, 63181059, 121237854, 90663530, 6772091, 14217270, 51485872, 7220897, 11558774, 57239263, 52602177, 24022690, 94580225, 80010054, 119625025, 79558393, 84486125, 112229428, 92626995, 93867248, 59839130, 82720444, 47731087, 41935074, 44604858 >>,
       << 109715205, 26594858, 95683641, 101791066, 90042682, 108622383, 71603135, 10542212, 130685370, 123853970, 101434099, 102599827, 62504573, 76207390, 17689263, 12470997, 109099016, 107689660, 123438573, 93764425, 62850928, 13054418, 61147472, 41660066, 91869078, 86492401, 95323564, 102877015, 62464469, 63155598, 31097470, 127164354, 30037183, 19289997, 115574385, 120218934, 82804565, 34635255, 122522211, 48781345, 52623673, 24609232, 93900684, 123113146, 89279031, 44335867, 105868085, 115533491, 118434245, 43588695 >>,
       << 60838623, 65432046, 4061983, 8773168, 63798298, 15151444, 47169588, 64243595, 61906810, 113516826, 22924595, 37883942, 103071365, 46790372, 81126594, 77132010, 17098533, 68175850, 13815327, 54450250, 109730091, 95868110, 106939018, 14358786, 43737494, 74645170, 87167893, 9519256, 106358280, 40549608, 71503899, 61870997, 53796676, 79260394, 55491233, 32021033, 83332410, 32707660, 73544472, 21343341, 130713535, 64743230, 51514973, 8866414, 45729880, 27949250, 109241916, 93155137, 79318677, 57867771 >>,
       << 105268839, 131560918, 58432185, 76129797, 105673210, 45929418, 73085160, 93164975, 31696096, 23231136, 88934311, 89872888, 10454809, 99236164, 124938351, 95550784, 77066247, 112306441, 65314414, 15344154, 79478790, 80003898, 62130518, 43671508, 74502610, 13106885, 110330066, 59755911, 23645674, 41343854, 128296504, 54464708, 9342578, 80296988, 14595457, 92007417, 109262185, 80048179, 103527955, 110040515, 50856575, 43943990, 66343171, 86568973, 88605814, 8252004, 12151134, 29207357, 109660392, 18645088 >>,
       << 119086227, 77949346, 121232968, 101332842, 85380301, 108694800, 24741, 101613251, 19693143, 88701999, 20027490, 60797197, 71303949, 39124904, 52342586, 82620697, 77568641, 60016768, 26261929, 27603443, 91471634, 117766037, 42493026, 40229795, 76541203, 106615403, 122568201, 91208855, 40876026, 123279200, 126612051, 125718589, 58348074, 96340306, 131879695, 122825047, 46206415, 132914374, 11983952, 78212291, 1089747, 82072899, 132395272, 68507933, 54250458, 113767878, 17120235, 114421308, 39484797, 8376603 >>,
       << 49556257, 120940332, 73670115, 129909274, 7130627, 113187, 94402592, 75165988, 110159640, 131358384, 48216998, 14723458, 115594728, 37877483, 116189554, 4185545, 31573535, 57943873, 94250625, 79210454, 52917798, 83914843, 42698324, 95532642, 51377152, 54496780, 51212793, 58410219, 73164605, 28348941, 88917575, 23274710, 63736162, 18665507, 25263378, 74547422, 51619474, 113189523, 124081879, 48357021, 112737883, 56000400, 20705405, 38717904, 133876283, 117136601, 89934747, 16850922, 18022414, 1557295 >>,
       << 9629584, 87025331, 2108265, 19326800, 96816512, 118767748, 65323947, 88305426, 58617594, 130858932, 132904762, 18223512, 11363335, 18417392, 86200382, 108171652, 55815175, 115447749, 61207129, 119934608, 105888180, 93333735, 81125155, 124864230, 57137046, 83650995, 24131995, 60987778, 68372512, 56925051, 74094900, 110068123, 60404120, 51635535, 47688529, 30298433, 24936450, 57011913, 81144449, 997236, 77569592, 66861495, 113656093, 98101533, 31776042, 95580470, 67340900, 36138183, 55141717, 124361375 >>,
       << 73305194, 77356703, 49253883, 4491176, 131296271, 5082158, 76255745, 64863150, 94607733, 49469782, 15188664, 77882357, 64630252, 129082255, 92676974, 10745888, 19070658, 98003834, 98152509, 70653292, 132013751, 115340092, 132025734, 100741438, 104538137, 37503167, 62402697, 69383794, 10500470, 70243759, 119442433, 81882291, 11871068, 32914388, 63411376, 84646134, 99547424, 89085263, 128904188, 89753695, 10479977, 91814860, 85052118, 72369824, 107118932, 77796412, 41943002, 82280717, 7083242, 121277162 >>,
       << 46109986, 71810948, 104492143, 1447323, 62930506, 60939515, 68808477, 121608654, 62979305, 77036318, 98490921, 44495054, 56507825, 47367387, 128927039, 131232794, 107135707, 39542951, 38816900, 22482565, 4741407, 93288187, 123864778, 80213415, 100586158, 40811697, 97572491, 105363809, 75659375, 34956086, 8243352, 84463223, 63506531, 77596783, 22693431, 76887967, 6928303, 88089763, 132924517, 39158452, 108568153, 98969478, 83794410, 3663887, 38495745, 65063411, 11074327, 17021671, 67859961, 10316277 >>,
       << 114279047, 105194865, 37292234, 33829709, 17789051, 82650976, 37711414, 36939015, 115139803, 34488013, 1906295, 99512938, 14971907, 81043555, 23436273, 122155780, 79426041, 99182503, 20285078, 88470372, 59948773, 49629263, 108426542, 23541704, 35064728, 105029090, 94056411, 31701674, 65084661, 24267798, 107289894, 70784933, 115697618, 4441335, 46016278, 132079862, 11328172, 129834933, 19470999, 79932574, 125351553, 110289897, 20689702, 112422677, 66565050, 101033910, 133356798, 55424925, 103397014, 51427803 >>,
       << 31936764, 88673262, 59080631, 97441948, 85573823, 22452379, 28300713, 77545284, 98564279, 112988917, 46315279, 7291483, 86202825, 35486562, 101399336, 109995590, 15568500, 7049544, 22494944, 62279029, 53518621, 63918769, 40448811, 63923372, 100146630, 127272198, 100989156, 123810384, 71473736, 31361490, 50975999, 91739153, 94705076, 52354374, 63698335, 35248951, 19481680, 71194737, 116806700, 58349054, 1592230, 38761035, 124449700, 107013008, 60239684, 51271721, 91065843, 42371009, 129085607, 71169409 >>,
       << 91654106, 128294800, 5505291, 13068017, 123173238, 71308986, 85553621, 47490002, 128336797, 113311878, 57953319, 81937985, 123217513, 87518806, 115206548, 36586490, 44958564, 36282557, 35847919, 107685079, 13190487, 34271680, 87824468, 78406887, 52499769, 61888947, 103770572, 90636039, 100541280, 32453439, 98557883, 90179529, 79017236, 103414395, 26162482, 69786819, 45285947, 90961791, 92647588, 133307040, 24148004, 42046364, 73499313, 1419753, 90301937, 1137651, 111627475, 9120357, 1605433, 55196875 >>,
       << 13112905, 70499776, 13946199, 92006192, 59853349, 47179735, 29449560, 97341495, 38023482, 33808923, 25914696, 4569008, 3181023, 83134088, 12340150, 7634560, 125964071, 79743930, 88128100, 119986214, 112133427, 29101720, 127572468, 80448089, 85642035, 16346394, 95036231, 128553114, 16103055, 11594582, 114949541, 81159552, 17435856, 50460287, 88099795, 102523253, 120782159, 86960449, 75976468, 107803687, 129810757, 24799223, 120259303, 14877375, 93369050, 24731360, 34002147, 39536330, 62673716, 88647835 >>,
       << 125652229, 10162184, 85735668, 60860191, 123842078, 133579841, 37095573, 103261634, 57308741, 92908395, 121251153, 89600963, 103331612, 103363704, 43406567, 34539133, 21738712, 104787981, 9931717, 37216895, 104301395, 8373492, 51378412, 52155724, 44648162, 133675296, 8060935, 34660198, 128259225, 109092285, 35522715, 23881291, 59132953, 9314506, 65997780, 131455792, 124632743, 26933352, 81913332, 52698503, 23950102, 86635285, 66042812, 14553291, 19310253, 72562419, 103174150, 57881875, 29311339, 82405160 >>,
       << 86347387, 14260594, 122488336, 59268093, 96019405, 34761889, 13862962, 4678950, 9787090, 9450582, 76684568, 97649457, 33634472, 104319006, 59845276, 2518567, 120327856, 66800348, 19978882, 87626101, 85944345, 116452, 125210876, 5078212, 89201885, 52409851, 35760499, 20348410, 93959818, 44269149, 121415711, 52523472, 77126909, 497109, 69173535, 94973222, 126152728, 103480610, 65857881, 64174787, 58526669, 54212251, 113286359, 97679289, 104815594, 109021792, 105412148, 9408620, 72494849, 30312650 >>,
       << 443906, 51596498, 128064562, 92511086, 109786968, 104666995, 64701849, 16267678, 76134185, 71847296, 125499237, 133090484, 48173202, 44753520, 91514443, 40644896, 53769608, 7408103, 84862181, 133817194, 128691163, 86848857, 12169115, 49037166, 71756326, 114533634, 128973240, 45642455, 10798726, 112901481, 61691749, 102066284, 102878974, 38917593, 86945247, 27262368, 23705307, 74420438, 5278941, 129857391, 51561575, 88682228, 25636010, 40113698, 93399738, 52358969, 120320918, 14330160, 84639988, 92454886 >>,
       << 48219211, 65297400, 11390049, 118811432, 84931806, 58785183, 98693541, 25429494, 18782825, 4791343, 25916466, 3404379, 96601737, 133732337, 79583788, 32008932, 65663681, 52179495, 8454727, 106399650, 72551667, 86356711, 41302939, 67066471, 71664219, 129513912, 111971178, 108955010, 60305001, 129731384, 133658527, 2203625, 4971784, 45538076, 7523501, 45327823, 105733844, 96772591, 5746469, 54426343, 15862805, 28410963, 108327625, 87758252, 89565693, 70211929, 61521428, 126176715, 91010064, 116796270 >>,
       << 117340572, 72016051, 19992217, 99462248, 77758465, 31270805, 124126677, 9668169, 4949636, 98711733, 19003951, 65618337, 87755782, 2558593, 63246028, 121759487, 123214434, 82996496, 6147399, 32572300, 94126464, 87078639, 17520478, 1928065, 23118870, 84914383, 6705248, 121421725, 41250118, 110157753, 106528222, 13058343, 61228059, 82037350, 22909541, 112119068, 79328380, 8584245, 109763281, 109719019, 14271532, 15324937, 66725470, 79856515, 107263482, 82628262, 29604743, 8470495, 107971925, 27198033 >>,
       << 57205134, 45277425, 108920508, 112192054, 131827679, 99043073, 91053016, 53956682, 43518077, 16213828, 130976808, 91816788, 77304983, 73267417, 18432040, 43163063, 112263343, 129478820, 106448304, 28619492, 102572930, 6118522, 79602555, 23279749, 45030548, 8485498, 16206185, 36761344, 18956482, 101676651, 55721070, 22555403, 93455238, 49650807, 74277128, 22146747, 58876111, 32701425, 124242066, 78112812, 5462513, 17900736, 13417457, 106173241, 113731634, 84851724, 82200507, 50483455, 104375978, 21173338 >>,
       << 2097866, 118061529, 65359668, 10834405, 852226, 969588, 24080385, 124303998, 11964334, 94857204, 87477181, 79689161, 119039735, 38081803, 55864403, 93080467, 108368977, 106332748, 103691611, 63889312, 92926762, 17031212, 27670356, 19204927, 85875952, 36366259, 70207530, 60454232, 55301908, 32112095, 125908256, 23427561, 81945021, 92834855, 5049433, 80030269, 24159253, 96260787, 67093782, 82147935, 127546847, 11814004, 84180238, 110928750, 105036516, 40426348, 46688115, 56208488, 613380, 74854623 >>,
       << 31626932, 25756766, 15771632, 132419683, 71162107, 131102733, 12842469, 83070162, 48573570, 115793802, 102156902, 132443654, 72440371, 68120967, 29430744, 62306017, 103392114, 84082607, 88493393, 27931877, 37101348, 7122803, 26000523, 15123535, 106919583, 20027622, 91971859, 113250461, 129999779, 122337361, 63674613, 66775311, 23665782, 21442569, 89945021, 123839079, 5786878, 7251463, 86551756, 48881166, 38260712, 28130660, 58340640, 33739891, 44868265, 82788091, 108065896, 119464460, 101791801, 60820445 >>,
       << 5813974, 14015162, 99377072, 7040602, 124132788, 72123324, 23607235, 21212522, 105426954, 3901068, 65103838, 69109207, 15577992, 9510600, 120135493, 31581408, 96825082, 59702849, 79551741, 77814308, 43751263, 56246123, 26675960, 100272286, 90845610, 120577550, 43712695, 30878564, 104552292, 14781783, 43772726, 30572391, 13161945, 31825487, 99018842, 55377624, 116754163, 26837617, 50403103, 119637005, 29616854, 9868991, 63215242, 78529753, 65016103, 7293304, 119519389, 58500818, 19453688, 29013196 >>,
       << 124538900, 81796786, 61067841, 23898911, 51986593, 50128319, 18307917, 61436848, 96612768, 26059032, 84828438, 48129159, 130936895, 36197787, 27140286, 45082572, 17074074, 4307663, 92906924, 76325036, 8006318, 37662052, 18320921, 14912833, 114306711, 62482955, 61549421, 56133052, 22978251, 102051051, 46113991, 29508245, 118971798, 39615907, 81018650, 21043745, 105971199, 106644762, 85630804, 127877301, 82077910, 121544635, 22808354, 77594146, 130209428, 74189605, 114756697, 30830120, 11606388, 55256920 >>,
       << 115021071, 70030620, 65661110, 115722397, 133635805, 29050434, 79400640, 63550616, 112338765, 62110987, 37469681, 1946674, 97981324, 57460000, 98808253, 117118184, 33105363, 33263373, 43928918, 58283876, 77774748, 29850909, 119698406, 124484215, 79426243, 127003841, 19994374, 122642082, 77000815, 120561315, 681501, 56072388, 131558075, 5935671, 5376584, 133046477, 63169926, 98445522, 103160603, 67674770, 4512474, 57136170, 71285951, 52924755, 64326441, 108678311, 107108097, 93503250, 110231855, 13153230 >>,
       << 60725652, 66476033, 32280906, 11152355, 74958851, 101076511, 1667385, 93034338, 98218692, 54575354, 127497969, 29260335, 17812303, 48104396, 39700319, 32086411, 86924795, 134077022, 12177508, 2138110, 64395377, 89796439, 40914476, 21716808, 94395930, 61643898, 115148356, 76555214, 100299122, 78337534, 3276720, 131052978, 61047698, 62244899, 103593941, 18605786, 117333008, 94373167, 54406548, 24822996, 106013041, 116977702, 49716992, 84129142, 62316725, 94476135, 85013818, 183025, 115478604, 84195455 >>,
       << 9489004, 51657620, 119914740, 92710981, 44681905, 71258920, 4390822, 39807633, 57163632, 101050918, 36210517, 93691353, 126982787, 82208524, 72804407, 77205978, 106633133, 27802722, 105722209, 91894205, 10866138, 83276088, 118225316, 45056176, 98752140, 125123573, 7356698, 69086760, 126879001, 122138684, 90550388, 48853980, 119182377, 6920612, 14893677, 51399349, 49068774, 62458605, 83098685, 5486060, 49066128, 49181804, 23523992, 86996261, 74999585, 94606541, 8993381, 75263692, 95205618, 103827547 >>,
       << 27476059, 18576512, 131701363, 44953500, 32028739, 72428426, 15241453, 87112459, 64222305, 98969476, 126050301, 100968928, 77862305, 116921274, 128728723, 94334073, 28158070, 101089235, 99994450, 102124377, 30257672, 43011925, 47340158, 120518532, 35884163, 67587480, 91298487, 56764586, 37197817, 7309497, 8505267, 50038218, 46335527, 60721529, 65260270, 67303492, 70690141, 111341635, 16469781, 63104323, 95271137, 71391010, 91040997, 110780496, 71518649, 120722296, 39227057, 60663511, 83342668, 49411699 >>,
       << 107361279, 90369665, 126884785, 93042827, 108554744, 131276271, 126282223, 118531746, 8808386, 25280389, 119709222, 118645650, 61454824, 11718382, 10760289, 52436517, 120520253, 23999716, 38704726, 128615010, 128396293, 10327693, 14678711, 22114547, 37036407, 15035684, 93560777, 19858055, 66616115, 20199508, 117439591, 27414797, 69885511, 127789338, 84191586, 3045436, 39348536, 55906603, 130134100, 91590630, 72670169, 125053539, 17720413, 63606441, 46533319, 56388890, 59573887, 99013658, 86528081, 2883305 >>,
       << 39126722, 25375292, 8448940, 2957704, 117010169, 107641155, 31182544, 112064758, 127164413, 69742280, 86526415, 45080697, 55256328, 77672417, 46008827, 88014684, 86711527, 105605778, 43796105, 65249732, 79639062, 89369591, 93531446, 71157706, 112998961, 73614224, 59761289, 61472671, 40813240, 76135229, 17710599, 120565358, 105944530, 41137063, 23050166, 105933718, 34897610, 30438156, 64994010, 49915883, 130288376, 38674340, 103314060, 113482929, 6351040, 19909634, 47395084, 38169110, 61193423, 128340851 >>,
       << 22328873, 83031143, 124034849, 21580852, 95537812, 71848989, 38285148, 24465275, 130621510, 23536332, 112653190, 95041070, 92993996, 121428274, 89436783, 106630251, 20600381, 21643241, 31931112, 15692379, 5523254, 133381959, 42496800, 77111463, 16974987, 59175071, 34951262, 49616555, 24762712, 27535486, 75495759, 94909970, 4655890, 89329049, 42539471, 131267966, 46150365, 19856736, 50051795, 60187134, 72459667, 130924787, 21823481, 71624345, 40474667, 16306114, 123538557, 3345404, 54299436, 124965954 >>,
       << 67030603, 103148762, 19513094, 127210093, 61477186, 124528723, 42978923, 20945115, 576371, 130211350, 99119118, 73302419, 130942954, 68103287, 44463735, 86871612, 94684078, 39668971, 63607213, 120256058, 38899945, 130138254, 126702813, 101221863, 131625953, 133421244, 77004412, 89508156, 19741209, 107317297, 75864089, 97783491, 121719478, 123787950, 59338400, 45457454, 92495742, 15074747, 98199128, 64287772, 120819372, 5379569, 18713077, 91000738, 73948598, 15686844, 41350093, 3328008, 53905855, 82882398 >>,
       << 112860589, 29576862, 59857441, 47968550, 12412607, 43804166, 7386489, 81624673, 86075527, 26192555, 78306842, 70656754, 29815643, 104862076, 125582840, 102957764, 37302753, 26268513, 3026428, 11219199, 72264474, 114011435, 59788371, 90873909, 90134958, 128530077, 11727533, 130974961, 68690958, 52938641, 26098642, 65829146, 42648731, 80956358, 81212170, 68659862, 126621295, 7522583, 121929685, 89491869, 48461306, 53359331, 19856967, 96095030, 114595642, 57396933, 49610894, 51823158, 50040550, 1636220 >>,
       << 38205125, 46294407, 47158074, 41350514, 131201000, 59804203, 117346792, 75300576, 11757289, 28950113, 97690823, 119159153, 59622247, 99526159, 133224136, 55782199, 107868842, 59391930, 38739802, 21983567, 108135570, 97710595, 130239604, 120490423, 56885794, 97791776, 120316640, 55592149, 18732457, 112140459, 78809974, 80253572, 11553190, 19278938, 27888268, 40698994, 63701495, 132658443, 116437344, 70504712, 132424357, 45018873, 8873909, 125245674, 128861809, 79279578, 101483910, 50435319, 11871327, 888369 >>,
       << 54956876, 85739089, 122730099, 36685578, 55635129, 23473742, 74600071, 62024691, 95327739, 76224438, 101367099, 122792056, 18378036, 26743897, 24965358, 111707230, 51240239, 38851088, 74338760, 65845287, 5668405, 110434241, 110897170, 40532800, 112016129, 78545322, 40790697, 66317044, 75065432, 99301794, 62203452, 30134594, 3602405, 106195690, 328387, 20672747, 35255913, 40288055, 128315717, 85973864, 111970209, 85437748, 63423402, 16666744, 87753291, 89377391, 119814357, 38612968, 55989834, 24074943 >>,
       << 66019888, 121707722, 92320749, 86541691, 32849824, 3817499, 16019511, 102638760, 37207440, 66176080, 133457109, 130275126, 8955654, 80381832, 100068117, 48554539, 77989327, 64489726, 75910136, 58528124, 116547416, 34616300, 84288202, 92061662, 63893102, 130762795, 93179999, 109827789, 16050250, 50090353, 68790057, 98375859, 77210585, 2354860, 113451570, 34834491, 21856985, 78068345, 7853132, 19614192, 42906872, 61880273, 117885747, 93050875, 18186152, 47967465, 21918943, 7098551, 36597195, 48474537 >>,
       << 56306216, 85395644, 122420609, 128198916, 47779407, 6538403, 38903840, 39146492, 71083363, 85757950, 125670343, 10311502, 68969993, 26013386, 102870162, 84292753, 24595062, 102634871, 12684736, 80364540, 101016088, 22432603, 72975834, 43299559, 117097335, 42441045, 110974169, 113413293, 91934734, 107357701, 40409241, 36434606, 91998698, 93679613, 92388322, 48656970, 12862542, 71728681, 77852542, 47194894, 110503444, 19289438, 1731095, 18381043, 69547700, 37771252, 50065117, 104529819, 65082045, 55296966 >>,
       << 45676049, 123602095, 122243893, 21881401, 13746292, 29242850, 20744009, 67562908, 29677351, 111611913, 25288872, 106717419, 120400916, 74981433, 82332960, 92563635, 111590790, 127841743, 70551927, 113557559, 71416669, 95636456, 73969111, 94256397, 101509772, 107720502, 15296356, 56015266, 61806103, 122947621, 10254278, 15645176, 109903481, 17613681, 123937959, 2332623, 64359847, 46735943, 41818682, 92751255, 48663129, 18658140, 109661078, 59315901, 119417053, 132550976, 80215042, 70212126, 102487253, 130206155 >>,
       << 45908520, 23113253, 95280478, 40894029, 3860039, 99919758, 109330286, 15917805, 29844365, 17275764, 114999790, 93179884, 19107146, 92348126, 30410305, 41262331, 16823411, 28164383, 17477597, 131682297, 10550179, 57016371, 92720040, 102411305, 105230688, 14995099, 10433455, 2524153, 103977441, 64995591, 101647653, 57881056, 5706527, 26353784, 14471004, 4401363, 106442064, 88555359, 68918010, 79614758, 7954445, 62959166, 15961469, 121940738, 33958759, 5809144, 8891570, 40486214, 89601933, 1378737 >>,
       << 101274023, 12952493, 105008033, 16615289, 123493472, 80771151, 27568480, 78866745, 120953643, 26846824, 24800996, 90006495, 47182050, 3927092, 12184193, 19536326, 113529611, 100153001, 126412293, 37228730, 127344653, 77812909, 46685830, 47271923, 21549640, 114774690, 67194013, 104797488, 97784874, 82269619, 32456869, 67767769, 76535694, 9172042, 13301739, 110003038, 77595788, 102440880, 1876942, 70979534, 29124988, 96074611, 25709072, 129421296, 37830178, 23055043, 121018795, 101202565, 72091897, 581018 >>,
       << 130671682, 97354742, 13245372, 124048332, 28724658, 123544355, 67671943, 114259123, 94993414, 63715236, 49185834, 93701812, 79105321, 24847161, 59010948, 90399088, 128546725, 14404851, 24273079, 112037195, 47623448, 131708007, 50951070, 56920644, 28759369, 69021601, 30541809, 54704189, 15145863, 102194645, 132152486, 42181984, 16591378, 62532267, 14806384, 69756655, 18241849, 66547299, 102310641, 48486215, 94587382, 38691113, 74777007, 96923530, 5450389, 11039132, 44038904, 66265010, 15532025, 51644447 >>,
       << 38065683, 61330222, 80582915, 98807658, 41876858, 92213827, 131020533, 112889212, 59586748, 30316218, 74345332, 54664494, 39002238, 132199405, 114805236, 57440042, 25338291, 114994226, 9342782, 120091935, 112884930, 107701190, 63844258, 126041452, 91151434, 49317149, 24064874, 1716086, 134046375, 90484077, 65987927, 90207128, 14115931, 53199848, 58795196, 70150556, 88388851, 90800798, 11409300, 16001148, 19242468, 52990697, 53770881, 93286302, 79263249, 131207339, 13652916, 99513339, 124190363, 119779608 >>,
       << 131245252, 22645646, 8685284, 48816328, 130890134, 26720922, 45450370, 26878911, 79854290, 113283721, 132964311, 54262755, 16476859, 31255233, 112489103, 57002833, 97334763, 66989425, 37382097, 102652001, 95763517, 102807043, 78103795, 79678350, 36637787, 101509262, 105963920, 107506283, 86413557, 126597524, 53718703, 47794571, 63864322, 89479873, 80955493, 127525473, 54283500, 132543120, 65032899, 68640894, 37432067, 19780216, 103079155, 61020042, 14500436, 16400072, 33647023, 65678288, 66742957, 30980376 >>,
       << 84338531, 126487190, 18066831, 3989423, 13368540, 99025619, 7093731, 111442653, 9157497, 66858535, 91014040, 3590174, 130469369, 24037816, 51356129, 81145880, 91161266, 43883276, 20499966, 40634767, 83478965, 83648866, 12929680, 102028484, 10269972, 88728736, 100879352, 69786361, 103021784, 66060289, 106398609, 62548391, 27102821, 39401349, 88864649, 66826878, 65800289, 67752405, 35120118, 72804811, 46119311, 108646780, 115383264, 72548572, 73366099, 2371679, 127853189, 102537634, 4241081, 132971055 >>,
       << 57768169, 118128467, 122801055, 15989909, 51489930, 60413482, 42219420, 114470849, 50511038, 59398880, 61694016, 4829304, 4410367, 23738978, 74714519, 88504649, 115475658, 104606944, 40673953, 118742454, 94765662, 22031067, 65965276, 57805041, 18050706, 41937627, 96062740, 52221499, 65425092, 102543839, 14681002, 76350455, 90600265, 65841004, 88594248, 74327616, 91989363, 72396020, 76800757, 63057955, 63875700, 75464643, 114669113, 20979701, 68006116, 7480910, 52530781, 35351739, 66396319, 79328732 >>,
       << 130308067, 50707149, 82804241, 90796653, 47347151, 102873964, 131235805, 38176560, 43014471, 8244186, 3777824, 79250658, 6055696, 17206452, 112331400, 49178730, 46825449, 108656421, 99597222, 78378721, 3610435, 102702602, 119634017, 83906615, 45802675, 51079694, 13066102, 57465077, 46324312, 133136674, 47964863, 55288255, 47146562, 7576489, 88750131, 32779846, 33234179, 31490443, 86984204, 41889289, 79528254, 11400686, 122190345, 92340624, 8791292, 116627147, 40924657, 15364077, 45311134, 22787384 >>,
       << 2645698, 72265081, 43770661, 5016739, 61862210, 88284097, 115879361, 56703371, 76242300, 69089893, 120985181, 56528833, 35784981, 2738346, 93409965, 63042053, 78918579, 2984525, 132307109, 42481834, 50699081, 76551556, 52385285, 43274663, 76844836, 13116517, 108491755, 65546384, 13429380, 92726191, 90611904, 27636546, 45092789, 66670159, 67480448, 108911938, 102663663, 89575241, 45572210, 22364326, 82520800, 40201014, 48765904, 130114390, 58517739, 27079584, 66699729, 85287876, 113727256, 130742463 >>,
       << 105649432, 10109437, 112793959, 114129937, 71918425, 28733345, 38568210, 35588515, 6379551, 39905650, 133711417, 76976644, 53959197, 107991989, 30317902, 83828673, 99708742, 128572673, 12342371, 96328981, 113304845, 77603784, 12714930, 79438729, 45209639, 36690420, 9028796, 76024718, 107533320, 71278157, 63789440, 57325182, 28150713, 46616029, 106790570, 10289344, 87447790, 110560370, 40513220, 67731571, 107928060, 40253107, 58104261, 89047650, 72470537, 42057523, 26853878, 55608317, 53995920, 33724189 >>,
       << 83881231, 69171687, 60831313, 90135290, 102467479, 73492593, 24239835, 118231936, 2496895, 84267786, 94399575, 69286427, 115790950, 25036832, 77422596, 67001977, 28582041, 88691908, 129133167, 110583059, 99617472, 125910052, 62719315, 35961754, 125783878, 85621026, 71500378, 108573213, 82466364, 114457475, 103229426, 121713444, 58213514, 125444711, 75982862, 97524623, 84122098, 8037180, 70097837, 26930522, 48892118, 62073912, 19829822, 32262445, 20196097, 100184610, 91980299, 102747708, 40302318, 113296136 >>,
       << 58436893, 55064200, 42768905, 115452203, 111429487, 122290845, 8647316, 85084307, 27321097, 113543766, 55356542, 35827376, 110556579, 38526473, 86710377, 21553261, 34419684, 92188104, 80696029, 31692809, 54474404, 32008703, 15241574, 20127592, 25758531, 3718391, 32962076, 106977536, 111028773, 41680049, 62298460, 65146916, 75138440, 133049108, 58536768, 56642448, 86828407, 121555040, 4966557, 27110707, 21388734, 36602780, 18311409, 3911355, 34681437, 105987691, 107849069, 37281925, 88405286, 73914523 >>,
       << 23620336, 86475652, 114423434, 5668332, 129357286, 96968818, 65208604, 104989636, 2672106, 7425900, 115371411, 120326928, 11264832, 42131585, 80745350, 39994087, 116389826, 8533790, 120873114, 128189805, 54627534, 120362867, 48779318, 90150299, 88238841, 118879239, 12120705, 53270351, 126589079, 112717453, 97205102, 113112026, 18865664, 31680907, 15023307, 76634749, 98580291, 67142220, 125216476, 16192377, 70055957, 89149714, 111264024, 77902618, 127463153, 104034289, 125031279, 70499222, 33797105, 66632538 >>,
       << 118724286, 12112987, 31954134, 80506654, 16411718, 103775923, 108271729, 42065222, 44196006, 111714000, 78426937, 98950188, 52338292, 108158229, 100445088, 99852483, 31667072, 125560697, 56756516, 29260590, 19364653, 14336334, 23508806, 28737174, 130180925, 36849119, 58985391, 54811239, 34132362, 115816468, 79118793, 7506180, 65814814, 71601127, 50292051, 93901101, 127333820, 15161415, 42478561, 73248658, 56878965, 63733841, 91635603, 33064092, 129293996, 37276794, 118035571, 105263373, 125758292, 19449696 >>,
       << 48720768, 63783187, 96055766, 49357131, 110241793, 41362065, 2828532, 86623797, 129762391, 121497837, 81311077, 4672042, 112940589, 99247260, 88882124, 107232088, 126278518, 7337997, 92701829, 123139032, 105871307, 90140437, 32168745, 33954789, 74185883, 51632246, 41509315, 85758290, 128645492, 94035195, 48701586, 121219693, 109018389, 91972475, 16381779, 71794497, 116360453, 31726640, 115111450, 59378298, 52139697, 1055770, 122109825, 128949409, 52744287, 124487935, 131263978, 123202035, 34297151, 40384524 >>,
       << 12113193, 125671065, 110421961, 101558250, 31602967, 39919426, 28237596, 115348961, 119486893, 21505334, 122928782, 58900892, 84738725, 42571763, 118040095, 109018048, 102910221, 86493863, 54531161, 105940388, 4547522, 36780559, 116292224, 10750109, 110487735, 104616904, 126231158, 65993764, 63228801, 98910676, 55426729, 124352351, 112899049, 44657219, 96285921, 56689004, 117676899, 123285183, 110090925, 13474864, 110649211, 21520919, 93748692, 35026810, 67959068, 8907659, 47225359, 56488286, 80814633, 97875807 >>,
       << 109176464, 73514771, 99023896, 43858104, 60835762, 93309520, 3670974, 102270613, 6992585, 86083599, 86113089, 24661114, 84578152, 59512807, 106168815, 86046825, 18265989, 412827, 53775923, 26853654, 84328498, 41009896, 42107027, 77283822, 11036999, 14875109, 21182569, 33501223, 69305456, 95772930, 130146177, 103026515, 111484114, 87131540, 102429964, 17460780, 113677104, 79727494, 92040260, 55071708, 106386647, 126086579, 42869025, 60597948, 64205127, 117239969, 98673130, 17919382, 34987861, 23283960 >>,
       << 92270241, 79593852, 110967004, 43967101, 107310921, 37822197, 26664193, 11327835, 55632768, 49338378, 24412762, 52813894, 117627076, 50643036, 126803158, 112028725, 118694297, 76556525, 30130153, 2782955, 127253065, 3082993, 123898042, 74964625, 86853189, 82141673, 84104500, 30696566, 121714646, 11942232, 130745189, 62065617, 26610839, 35135941, 94121678, 114330804, 22650041, 6681756, 53825994, 82947099, 57566435, 80583348, 34917786, 20032157, 11953600, 128584994, 49381407, 22833506, 127136871, 76134053 >>,
       << 15750520, 1894470, 96446634, 70576741, 58406016, 103798530, 123478839, 124592286, 60895638, 111032615, 90410409, 66323560, 15906458, 30129725, 95772900, 27265709, 25574404, 126976993, 115687188, 109174367, 104974630, 35729141, 38649601, 100185887, 66326127, 51281039, 17475058, 57889258, 114935704, 27730181, 80541748, 28932858, 133574482, 110607338, 37979220, 97537105, 90890722, 25415894, 56147435, 24208834, 54831176, 106362655, 19588118, 3861862, 38949039, 131013704, 35138129, 31606345, 82903638, 60529066 >>,
       << 121779534, 33328672, 49611937, 78235926, 91840773, 86870487, 61493746, 11507650, 1385159, 62932224, 17878463, 116963163, 43385340, 130781643, 93016047, 53358890, 92187775, 28483372, 95742330, 51471888, 95086974, 56813149, 98798220, 80154282, 34390017, 9805359, 12788187, 74759271, 7885602, 6994436, 44676053, 124965376, 31519884, 63207479, 121900102, 47553566, 133780102, 81386202, 126073656, 90032116, 129816707, 107675971, 80293348, 95236331, 100427319, 108696623, 6108500, 719539, 34045250, 67718480 >>,
       << 83169072, 51128589, 40601849, 131201033, 52975309, 90095263, 49781518, 17748717, 129930519, 119752539, 75102924, 5519702, 77911634, 24074932, 34935754, 22799095, 67611740, 66147841, 124866368, 45523530, 117829307, 62825287, 17705940, 12032348, 42589618, 95328889, 71192277, 58106835, 19031501, 34951103, 15682275, 42046335, 5927344, 131334275, 17162621, 67002914, 116994849, 130643709, 112045501, 37715268, 100371153, 48397866, 124317431, 57725168, 37973618, 121170781, 117700409, 35328305, 82266282, 111345574 >>,
       << 102215378, 124381834, 35400991, 69386899, 42011533, 58488779, 119812382, 22143753, 42351453, 98900914, 133488263, 65937784, 102498778, 127513646, 20302410, 74581396, 114492239, 123863206, 88237348, 85450010, 107135299, 59054404, 7143361, 25356407, 19947547, 7323881, 30851360, 24580812, 4813349, 63115555, 34926669, 21951974, 94752731, 62697508, 58576625, 15572483, 133573716, 120148383, 124447528, 66425800, 5474970, 59259769, 47851319, 132716983, 95164280, 75276619, 65122376, 61439467, 66167803, 15098270 >>,
       << 113526501, 96605083, 116350570, 19871432, 16596590, 46923095, 12559810, 27344675, 116524222, 38133464, 24247098, 112065583, 22588172, 100654793, 68281626, 110403712, 36613462, 75597784, 119573838, 89004832, 78608290, 28507329, 78322404, 133949903, 130409616, 553745, 70600592, 102924546, 76609843, 24235540, 55890810, 123535768, 10312681, 33038691, 103113229, 66855296, 90853123, 12657432, 119100476, 44111700, 3484583, 38155583, 91444194, 131712483, 91353875, 16373347, 52904575, 50138147, 79233891, 124708192 >>,
       << 127670567, 14236463, 112337179, 43424580, 20639394, 3875470, 10880123, 61771451, 111494562, 94986778, 88521869, 64405060, 60942299, 84336613, 128204979, 36147308, 79752745, 88316111, 779182, 44214932, 130160395, 5885044, 88070016, 83532396, 127627096, 60814320, 43609415, 127160344, 98186336, 134193717, 98558702, 121719153, 128500425, 106976020, 76391152, 17357063, 28369179, 115867325, 6534020, 107583288, 86388439, 37977444, 43375256, 107125473, 7453784, 99831145, 9492426, 73438064, 127761880, 80838200 >>,
       << 51189424, 12421986, 53533881, 34247519, 23892205, 32223009, 129526725, 103465424, 116167525, 53541768, 11970652, 2753078, 114399921, 27947183, 21869528, 52143976, 104621718, 54008708, 38243447, 86861418, 101006700, 128101755, 87787024, 20687604, 16186924, 40070254, 65880113, 107521878, 58030164, 98769387, 108226893, 123708454, 41621092, 121297160, 91934035, 81002225, 17620998, 48190104, 89324622, 12899866, 111676246, 49319220, 68807151, 26826266, 65716091, 59786268, 118838126, 52088494, 63946652, 36034695 >>,
       << 75572241, 80576371, 56783572, 12109438, 101534455, 56711868, 108849820, 49423803, 82391939, 25012256, 58264710, 84649276, 57179047, 12475197, 5427508, 68899524, 45868216, 130630328, 62213255, 90790244, 30095669, 86920825, 92105108, 95782533, 20813102, 124912092, 66481027, 70770150, 84498056, 86869121, 70421060, 11270276, 39017499, 62843313, 58700864, 10627779, 121763357, 107581507, 64103912, 40318100, 19945631, 132095240, 17151649, 91847061, 121185672, 40320166, 112949312, 33373708, 70208227, 57409191 >>,
       << 39658873, 76307568, 6405980, 73953207, 10272020, 123118192, 6052535, 68909330, 14446145, 68538495, 57030927, 55434526, 12681476, 62365138, 88698490, 96678371, 76299853, 109095492, 34008132, 47708716, 34206757, 78593591, 10974924, 103166023, 67571186, 2183547, 15292162, 99390397, 88795539, 62126560, 24099087, 105518903, 24455561, 113133441, 52741841, 6074522, 11179070, 55868338, 117676110, 94540089, 39949573, 42137166, 78813775, 97186343, 61068817, 101650368, 89960756, 60390985, 83726413, 108425653 >>,
       << 35577682, 45813124, 129750911, 123226896, 116949921, 108717166, 25124449, 28329117, 24842009, 10498581, 100264577, 131826798, 81074604, 34805028, 116986291, 90383394, 14271459, 58223505, 71722733, 2404540, 784780, 53007123, 15660291, 1785713, 23049928, 88020116, 64037945, 61762034, 92852660, 54370473, 116605747, 88277293, 129627992, 99891118, 80783964, 97430179, 65326787, 40641125, 83013580, 109136793, 130717583, 82778089, 48416197, 92699123, 90436326, 129270678, 92649605, 90610695, 53015631, 107997051 >>,
       << 40621889, 11762188, 16789227, 18134687, 1862394, 25609022, 15020641, 109517401, 2132081, 93419892, 130261038, 25262608, 115294643, 3599088, 28082305, 64574456, 87056735, 19482265, 87206603, 32451191, 58490538, 113023367, 84028236, 115184225, 106033553, 72287324, 25624104, 11555280, 40388512, 103310223, 62199925, 19886456, 63617738, 56623671, 2928205, 15630838, 22294301, 121120136, 20457766, 99157531, 94301121, 59762583, 129368021, 65101884, 63282209, 2634395, 115399925, 60333053, 78547740, 32565200 >>,
       << 27023185, 39571601, 76427662, 111326996, 111915913, 52577566, 6834659, 44808596, 1056868, 13779264, 84612181, 113766909, 95709697, 57953597, 131464511, 55792417, 113899346, 66532158, 98928976, 77666600, 79972230, 98123701, 74397493, 134087049, 39027097, 4968366, 65430674, 53644191, 65243366, 68901438, 79327948, 97256069, 82073508, 125531284, 91089265, 121476860, 109614173, 116451890, 65485030, 31125867, 95870425, 8147644, 70908408, 2552775, 56640491, 77363548, 42392689, 74256721, 8524244, 35950066 >>,
       << 119839948, 87013391, 55987241, 119338430, 63530347, 15695520, 66409428, 83576934, 126025678, 86728786, 46541891, 60173215, 93618803, 58549800, 2792658, 21653807, 38656152, 97470140, 25796821, 62980385, 46150415, 58802221, 31152352, 68133743, 29487949, 78874216, 122013330, 91935665, 45520344, 123713257, 80812511, 114548628, 113074024, 95992406, 88175428, 62876614, 17603804, 118537526, 39378681, 97038746, 95480503, 52394739, 128822627, 55950146, 111814204, 126325321, 90342931, 87577092, 98594280, 48352683 >>,
       << 106833642, 63394367, 107341306, 130317580, 113351070, 21746728, 83462271, 27811066, 37910765, 92703855, 100563210, 11568480, 89530801, 64812367, 17327046, 23258738, 26774319, 20980122, 81302255, 66060051, 13543068, 106499412, 55832475, 126574658, 133381180, 66266658, 40755467, 31503438, 28109613, 74736526, 6314854, 134118571, 2433447, 48155542, 118233216, 35005058, 47921617, 90855719, 21287665, 23449822, 111125391, 115354992, 120052049, 67575794, 4290941, 108288949, 8545050, 45329991, 57796900, 15296699 >>,
       << 82887892, 30425851, 16198473, 75427873, 30077607, 65278845, 34604301, 133367166, 45677542, 105345589, 47679636, 103263617, 6264794, 103360386, 117804731, 74762274, 35902065, 120301725, 20290817, 114542502, 92628429, 117265448, 69174131, 81106361, 89856875, 13977705, 94812063, 6767531, 124370454, 127005904, 58764105, 107238204, 61355706, 129204307, 112957233, 101436972, 14888885, 130816618, 14212564, 104911608, 81949659, 81826622, 104979235, 115210807, 127155660, 13672496, 110543093, 75493830, 5633042, 68089422 >>,
       << 14148036, 22420574, 84547252, 15845657, 116886122, 27566472, 122270440, 48538289, 21076551, 97757385, 39208083, 95048077, 59259530, 102269169, 67900294, 66892907, 98321450, 116835554, 13327047, 20709222, 86851348, 48819941, 44910261, 109945899, 18491507, 16506561, 113896505, 27097261, 58936139, 130142430, 55800998, 103242866, 103217884, 884169, 32925764, 112046753, 108601632, 63574016, 45811204, 38488047, 67783003, 22986369, 11439895, 35704013, 49987561, 95992484, 101313609, 55701512, 48404738, 84482060 >>,
       << 89254152, 32943913, 20348912, 101093632, 101134020, 71088456, 56602596, 105658308, 30626070, 18521285, 107611570, 57555628, 55486872, 123214566, 54936566, 120536278, 61572793, 127753874, 114405913, 69277190, 106650392, 91563151, 48556533, 126666673, 3994712, 59401906, 19539994, 103368033, 1335293, 96318095, 108212622, 69437366, 126653598, 9339029, 11378739, 45406344, 42252354, 53908666, 131794416, 103666101, 22055285, 58260195, 8250139, 52783304, 101897077, 4978636, 88607345, 123818385, 86096076, 20260447 >>,
       << 121132993, 77115770, 7759103, 131229098, 84772931, 131539691, 95746835, 107249462, 88632237, 117549675, 69763470, 130548369, 39691460, 56278204, 53955904, 118887761, 91384912, 94058494, 74304333, 117245408, 40845544, 96844941, 99683171, 42103461, 122034899, 46192019, 1060619, 110998538, 37551535, 120823942, 70839007, 81926643, 123540787, 19711458, 93992012, 54215650, 59886480, 86420023, 27532561, 119128938, 73071525, 83800137, 105809415, 82971716, 87514936, 59343538, 93612968, 46338752, 119141707, 108962122 >>,
       << 104899622, 87074691, 54291836, 104072471, 26480587, 118242420, 40470861, 11311994, 4962052, 72133102, 44894880, 52344046, 97321097, 96486512, 99328127, 118094906, 16912191, 69856260, 133133781, 72583635, 38108152, 28686961, 12458031, 68675400, 74059443, 41909809, 69972515, 45729171, 101609037, 85320264, 21478506, 3143613, 3743496, 119496638, 106917667, 72468532, 79524487, 34720808, 32392076, 111699883, 103905699, 40794416, 97510420, 56739991, 132466817, 67816807, 14823261, 98245520, 8045780, 112955417 >>,
       << 50060376, 34863921, 84153110, 68115413, 47576607, 16617902, 6406597, 101543756, 87370696, 126344923, 16743635, 60228445, 39991663, 76830962, 98899500, 699730, 60820382, 45497164, 131929391, 31688446, 108097288, 100093953, 132741343, 78060201, 75913174, 95918312, 120036134, 125834411, 84254420, 89324655, 71576791, 113346303, 79933222, 31385191, 47021454, 40158160, 38189707, 89512805, 105332631, 109398082, 95946142, 76875315, 90252537, 18786655, 95878565, 50689435, 69748476, 98987228, 33236783, 14123318 >>,
       << 44002874, 69316990, 78164250, 25844329, 110440080, 104495146, 48488507, 60976401, 13151704, 19670044, 95514760, 57135430, 111191016, 55304811, 10998762, 12381399, 8347493, 57027331, 119253699, 17456803, 63921605, 28827874, 59883130, 10478739, 49565830, 90841570, 70632831, 54056687, 78952163, 75023475, 69651618, 104532084, 52986806, 117039844, 35392370, 78423925, 66951467, 85424369, 56830764, 133749546, 59066531, 92478411, 124961483, 127214251, 65705089, 98209387, 130630421, 55958370, 110570152, 21856387 >>,
       << 19373816, 67885433, 17062291, 65063976, 95449013, 61433172, 17365785, 129927029, 94559702, 68878589, 115866360, 71020117, 15845497, 93210280, 28540398, 61127098, 63532708, 4376489, 100193038, 21050667, 126710871, 75031292, 49570909, 123708124, 127751353, 15940510, 80745413, 114396158, 54844029, 14809069, 16222417, 49604988, 76740966, 38868189, 5406577, 70166008, 20576183, 15803092, 49857504, 40926285, 133012466, 50259138, 40702879, 39457501, 65219822, 3755114, 106193563, 19175605, 19077681, 105198848 >>,
       << 79138026, 56607262, 6529832, 125737939, 120024596, 40958413, 119327238, 38048350, 28934853, 24572196, 109941105, 99275528, 65604774, 279945, 16418573, 73489212, 46794869, 9068358, 116826672, 5997180, 56045988, 64582407, 76914689, 41567482, 75935555, 60716667, 120834514, 45341868, 104870934, 50641104, 63783961, 111999323, 96641259, 111895100, 81296981, 17825403, 102267363, 18592146, 67748258, 85424250, 61865804, 102230795, 60388500, 89552852, 60273791, 19996104, 116278931, 97692273, 43649791, 11987653 >>,
       << 107348898, 83855267, 89187990, 83696762, 54979383, 51973818, 31248877, 120828760, 53069304, 45499525, 72611046, 6149817, 128591252, 89985448, 119459571, 59471365, 98772543, 37228655, 86693449, 11882280, 116226321, 22228439, 94919935, 3329148, 76771841, 84571826, 106858622, 103561746, 94945466, 41452887, 75302098, 86591866, 16613686, 86424699, 75075065, 11428912, 25827078, 128200522, 83041052, 72723772, 77424245, 101685386, 7096679, 128485665, 76536905, 70028608, 25420283, 100738266, 63865585, 67463037 >>,
       << 120375086, 2505049, 16144134, 88349411, 125652195, 71384965, 24124750, 129168023, 2546591, 36904845, 105596743, 27622679, 32921822, 111359180, 94706404, 112597592, 119139148, 77786253, 59623470, 11361254, 108303106, 71611045, 81450675, 43007542, 53928396, 79039884, 6037602, 65964394, 115692236, 125339062, 3122340, 45628196, 58655485, 24227374, 55691824, 3228867, 115380056, 70853774, 42598349, 51272646, 34517819, 12217180, 15387340, 131504666, 13332334, 72716383, 22569515, 38299260, 19331950, 24517408 >>,
       << 34299947, 103120110, 12029742, 20700047, 41177222, 127797386, 54663717, 91081300, 22708438, 7907267, 82473495, 128999790, 43659778, 24354859, 3646855, 95737589, 7851976, 40000149, 52336822, 13253224, 42955238, 19120731, 55408139, 119857910, 43515775, 34619354, 50400522, 126376394, 111097569, 120729048, 16235817, 6962963, 27187070, 32161649, 100949681, 80128603, 78655491, 31741300, 66166580, 68265991, 100984073, 67702274, 51680358, 127420547, 15445960, 36143160, 8137886, 42726394, 62387558, 74238655 >>,
       << 54636878, 8785652, 64984400, 3879756, 54692890, 85032473, 31372112, 122639448, 118937831, 2499514, 36126008, 74366722, 129315383, 78674767, 90610043, 13624363, 33059986, 102405213, 74451573, 87449682, 105389664, 16853900, 40884443, 76268638, 54592513, 59858725, 11261988, 113585490, 85335496, 67166896, 27307523, 105076587, 129910884, 19108179, 50104178, 72536595, 132245897, 22573855, 104961439, 32905017, 72146810, 127857502, 56875091, 129030495, 122338483, 74511273, 60631785, 5609238, 134359, 109071193 >>,
       << 62364542, 128998596, 111316396, 83312959, 38822404, 87652074, 130470611, 22465588, 72871, 8076555, 125293163, 123723339, 64717944, 36682099, 80244451, 33673745, 112674134, 91267759, 51023340, 134115973, 47166514, 113070204, 84853379, 28555376, 78538733, 112834722, 68495121, 37756962, 6104857, 21664929, 99211455, 71684250, 75575530, 9386546, 40350996, 12041357, 53056925, 93741595, 16505688, 111467569, 18743541, 97317755, 74689357, 134059519, 37508257, 117880651, 57977016, 28299831, 81932582, 67755826 >>,
       << 128502357, 107650208, 42722031, 118639292, 91550045, 126890576, 45987725, 85251058, 35079216, 131485101, 101024878, 94993146, 60762792, 36643203, 33007935, 88889317, 131938972, 43169555, 45852776, 28269460, 61713222, 128713818, 80465362, 44084785, 2130654, 122677451, 92857872, 17948365, 86764149, 123783344, 274812, 81709974, 63958633, 574350, 120989899, 1285619, 90289125, 23291610, 55453803, 74596958, 120160860, 93481297, 94395284, 65629343, 102336352, 52719526, 72226781, 10891605, 105670319, 117671405 >>,
       << 87120361, 87411506, 10404976, 72296289, 4153705, 119799011, 111680405, 109529262, 90142381, 59750614, 90227319, 16564560, 47378150, 130464869, 109089652, 50516391, 111060718, 80706579, 48045348, 51908845, 23781587, 112628241, 103074630, 108967307, 93553800, 132042797, 1131640, 16745522, 62101540, 49725069, 125661059, 25902794, 59670203, 1256721, 29732013, 99743159, 2655050, 101793543, 37733231, 91342458, 123668038, 95186914, 48025924, 25704262, 12075101, 109559357, 82334886, 83917830, 40691933, 108503556 >>,
       << 96342764, 29681939, 31441568, 131549361, 66277877, 129828339, 48720925, 4938681, 37682480, 66147579, 121400953, 94495682, 94887639, 81339562, 28063091, 957697, 26318323, 132105615, 110209326, 85689443, 53161787, 14890990, 116758180, 37224958, 76383608, 67152570, 66305077, 22881048, 74059354, 26007403, 88562013, 99162047, 75927914, 90217874, 91587976, 80929605, 75851838, 23559082, 8772554, 78942114, 17212939, 100122860, 8730772, 17103487, 34846207, 125300758, 76491124, 114820442, 30596967, 118246233 >>,
       << 70206603, 97831149, 104992181, 36819677, 25749878, 113771962, 90996763, 3102778, 133137456, 130165795, 93010981, 90963979, 71530199, 82470962, 33946491, 91359370, 75177493, 118527935, 60924933, 262390, 125881514, 57326334, 86029038, 90341923, 126577279, 87245556, 6960906, 114603123, 125998144, 43352227, 58055632, 113325604, 133560930, 54609958, 36780435, 16336672, 91291338, 69564413, 62624210, 66514912, 48515929, 69425047, 101874170, 5833729, 118621955, 96800547, 30138350, 6303488, 37303539, 123264419 >>,
       << 56379776, 71458898, 60245170, 42445278, 692467, 52594409, 26119862, 44923454, 10980204, 118124815, 76748329, 108404023, 3405363, 132911070, 98978082, 30283277, 131277770, 92549695, 56884191, 128550476, 9991216, 123077015, 33552306, 26424359, 22076343, 44187782, 41715656, 8434795, 84019584, 83925634, 12982357, 3741017, 64420002, 57975205, 108455853, 3224383, 79528133, 107001178, 84060174, 125501736, 44869326, 112811018, 33609390, 33172390, 14474127, 63562365, 31992031, 128688314, 45741665, 111738609 >>,
       << 7305854, 110277821, 44773484, 69749603, 106583790, 31775196, 126640812, 9785926, 104119331, 80525899, 83156815, 58858430, 102555574, 12840710, 83932889, 59922335, 77703269, 16753912, 11480272, 130798609, 8145263, 123039321, 4475312, 50653117, 42047653, 119465016, 113775313, 93061696, 8727939, 105045000, 17117564, 8321798, 123361632, 107694573, 59313284, 7353632, 40462762, 81971952, 84045156, 57960448, 8830219, 13667066, 90941162, 7488001, 75062345, 7006587, 39583058, 114075581, 51198088, 53912988 >>,
       << 12862118, 82852868, 100926813, 55177982, 31287760, 116042331, 80473708, 105693079, 88546660, 83752957, 1423586, 60855827, 51528873, 62305089, 106725196, 57459379, 118103301, 83243271, 83111718, 13593293, 45582551, 87365194, 125840508, 90701132, 105082970, 3485913, 60945151, 69419139, 44049408, 78894973, 25834405, 14496399, 13782772, 1649345, 79883050, 95737424, 9065665, 79575878, 105953678, 112847509, 25986503, 121382485, 76935230, 16908967, 85545512, 68303134, 34398138, 47699801, 56506603, 64612320 >>,
       << 97257257, 83329195, 59676465, 24954217, 32635373, 18478117, 106974963, 5915081, 8118989, 17137020, 41831217, 78453254, 58498545, 68870570, 128814303, 87470361, 101250315, 48015538, 41766978, 78338313, 118812473, 72631078, 104085266, 19545414, 19784909, 63018412, 41429578, 80977513, 46023301, 39065941, 49503523, 130227577, 1084726, 69481912, 78710632, 88271886, 91039935, 19407935, 7693044, 31861591, 68062865, 109948986, 112095281, 75088096, 115253059, 7329266, 56648087, 46146216, 26227100, 131065057 >>,
       << 26893461, 85973808, 121936835, 27012825, 105396324, 9180999, 45842323, 25414874, 89638670, 63850736, 93252004, 92857327, 131791508, 62733686, 80498733, 92934212, 44445587, 114354669, 77632976, 75980240, 129260381, 45051587, 82691963, 40215871, 56196330, 44106502, 21780851, 14072446, 60975394, 117588886, 105923474, 122211016, 5662934, 66562688, 29448158, 123474081, 496212, 85733862, 29933920, 93042488, 30906854, 62617503, 83741127, 28606966, 32080592, 64524663, 98594487, 103125977, 127854227, 109340830 >>,
       << 44495204, 108350120, 99332042, 50454028, 27557095, 53729043, 24728879, 110875160, 132859182, 902666, 48696493, 1327694, 9896028, 48034735, 4028892, 74449447, 15460445, 19112869, 39000479, 59110577, 26092388, 84736292, 78609496, 122501696, 102748064, 48306200, 5892805, 130903795, 3984330, 26725819, 26551621, 38131375, 23373562, 29386305, 118833991, 35164890, 96480625, 23392072, 45609531, 113754112, 74424395, 33012764, 23963425, 26305005, 2884611, 23632711, 113129629, 35136671, 122225233, 13581521 >>,
       << 2817734, 111594757, 90926119, 18420515, 50858151, 87895055, 105684928, 118784236, 14894008, 45417034, 125643108, 28217583, 40946121, 61230621, 32232378, 49612328, 108647609, 49976005, 88705666, 22999523, 126320592, 70722909, 131144389, 107243028, 133908344, 83644995, 118334911, 58212652, 117895219, 95421039, 8774822, 15903904, 19385367, 118477091, 124038047, 17554964, 106689419, 25453201, 25727027, 71478283, 50760544, 93194602, 50231696, 42674742, 80470126, 57651904, 131128242, 85381661, 32822896, 123616352 >>,
       << 6200213, 102419182, 82681879, 78829544, 25380862, 114680382, 71869344, 39484539, 105976679, 19940314, 43980546, 33174817, 7148298, 84484575, 106785224, 37590802, 117152144, 16972976, 114286749, 68218774, 129974341, 78394188, 118894665, 65631212, 28083391, 97616358, 10926356, 105315983, 63171894, 106165849, 89053757, 82528662, 8707112, 22472549, 68264989, 52092026, 100838857, 118436687, 86580039, 100815803, 68338099, 50233144, 66919318, 69644554, 62312899, 24024774, 43194369, 95628369, 50181152, 70528150 >>,
       << 93215510, 64867032, 96052899, 128278847, 66409861, 63586743, 36015375, 78005556, 53814070, 85645083, 123639387, 106115821, 78380820, 87206259, 4912971, 27809859, 29464318, 120109381, 27246265, 60677159, 115852483, 31458567, 53136795, 29339153, 41070495, 57045601, 119280493, 50611218, 76688035, 21100279, 125560537, 113069255, 50211839, 34162336, 73893835, 11376149, 18029509, 100881098, 11278067, 39600674, 59660493, 69634938, 47187591, 30893911, 78378083, 5522109, 62445215, 68754653, 83366096, 45147351 >>,
       << 57190488, 60552489, 62753631, 58049927, 54888712, 49326617, 107978761, 66779099, 42549761, 36644052, 51320957, 3317620, 24100904, 59282426, 31378816, 35651567, 86618062, 10185574, 48196637, 120994040, 11062025, 39529512, 113092312, 67345747, 68825641, 73370374, 86389831, 10490324, 105478128, 37101128, 124366941, 30566959, 13208247, 15916596, 9576257, 48350177, 5138040, 73286377, 26884696, 44796219, 26393422, 90611371, 44190018, 33557605, 40629797, 100020573, 109463251, 103144022, 91743095, 113474141 >>,
       << 36838009, 25587594, 94709751, 81072076, 133948716, 18503943, 134003663, 114756051, 100983184, 96124771, 99297094, 72897088, 122457910, 35049006, 1145397, 103357863, 40194740, 37828631, 110368426, 46524207, 105109694, 133793913, 54198613, 126945141, 54459981, 110308358, 77840078, 101711009, 87954019, 1595945, 63351303, 87790612, 68806311, 132778192, 102161237, 127706672, 20036175, 116160896, 53352256, 30545068, 30457532, 97084499, 100547476, 28168948, 63678024, 31369795, 69232906, 78786294, 105491731, 74170763 >>,
       << 101686209, 62912993, 96973697, 109306610, 61928212, 45722553, 106289017, 11526062, 42020192, 113521578, 25212337, 57551618, 103365241, 126423674, 93676091, 56061116, 28129989, 58878740, 60394210, 114480222, 74953463, 4040500, 50291405, 18649583, 77511871, 117272768, 17226260, 41013170, 126614830, 99026519, 1299382, 67082048, 108770232, 88429098, 111977700, 47601987, 45610169, 30264841, 56257000, 57139083, 92041525, 101015776, 54139232, 102386863, 104507748, 92679838, 72155988, 40216625, 43765651, 78779778 >>,
       << 3119198, 76178952, 105408941, 4323017, 123768098, 18674348, 20628088, 131163379, 127860846, 133446965, 44325475, 76261289, 84535600, 107259530, 80933663, 122641743, 81582537, 77024699, 116359355, 52463815, 131556474, 51179711, 27407879, 127331375, 52430296, 8550910, 71738111, 51866272, 25278389, 63723578, 14581193, 44136340, 76439010, 129109152, 60604045, 85765571, 120090479, 40888822, 12514663, 23008094, 14000677, 90581603, 74209891, 23841913, 4302906, 110927573, 92479309, 80982133, 65580570, 3602203 >>,
       << 25057390, 26709158, 9326928, 122318696, 129250941, 51793831, 38093356, 27634396, 31278022, 39071522, 88525972, 70383199, 9392480, 61023927, 7711235, 49479669, 69596144, 1482715, 23062057, 43858604, 115387966, 122112959, 55144861, 52493261, 21076941, 132821209, 14863801, 17332564, 72001505, 56158469, 64189781, 99742932, 9229212, 52209742, 128190917, 121277461, 116192219, 27713235, 17439215, 116829696, 27605500, 41574904, 58008992, 109776156, 95250511, 89226958, 63723896, 21311258, 81028510, 77187458 >>,
       << 126051150, 41649604, 78851835, 27242553, 67441055, 96203515, 91917122, 61600090, 36969062, 27072082, 999023, 133021192, 19151794, 59825080, 8585913, 110673606, 53584671, 81181404, 108389651, 33130320, 70579265, 44143064, 122178738, 76400632, 118009513, 65895351, 61767610, 62101932, 77327229, 5245871, 98957484, 12227594, 38642865, 86744801, 118245022, 123332115, 61244438, 46544270, 93994894, 113097155, 95515768, 106346985, 39922892, 52491260, 82279159, 110518850, 108714314, 114064116, 23505052, 55707438 >>,
       << 33438309, 24102565, 120791206, 82911191, 98414337, 57992341, 61448654, 51628861, 122249948, 88460225, 24621479, 93754040, 76318249, 12822379, 52821563, 93770511, 126928009, 5860545, 32171352, 118855410, 116841846, 21197304, 36745629, 118454638, 84299900, 72173911, 39176757, 89477179, 122983212, 8958209, 93689878, 97514246, 96960146, 121095894, 29159454, 121968544, 66234781, 55200819, 133196293, 102255225, 74198767, 16271298, 133589103, 49490380, 10272170, 101387651, 14123001, 67698729, 102883133, 104624147 >>,
       << 43756742, 55042162, 60523603, 22124330, 33925761, 27833011, 67922837, 5990830, 62031070, 3586013, 9824132, 85747226, 93212294, 90680458, 100627881, 61995701, 51157834, 46124957, 100120712, 53598753, 114859927, 26092407, 53240727, 5070029, 1441144, 33635732, 15392453, 95173737, 123096041, 18318112, 43904009, 89965548, 100485595, 62309982, 65063283, 61922288, 9158638, 11079489, 73608832, 88184081, 32520097, 95775292, 127509314, 58750274, 18824809, 63188059, 110115806, 37465789, 112952611, 21658249 >>,
       << 22896080, 112541008, 2424794, 81468625, 13490911, 23788294, 39479427, 16663316, 71760022, 99515262, 52458932, 22609429, 10413322, 90112729, 102487187, 1504663, 90916826, 36675298, 20601948, 59144114, 48061622, 23882733, 29081281, 95886792, 4623108, 119814515, 90602889, 71443936, 29013376, 59332039, 93515177, 6409704, 112273282, 85200126, 108919273, 70179022, 86035199, 88924605, 96154980, 88589123, 120394628, 13796681, 52427912, 92656767, 41382580, 59590884, 7035056, 80289763, 626224, 6531664 >>,
       << 103671074, 50653170, 102960330, 27076822, 124664184, 33514137, 50283960, 121971217, 32016340, 26841625, 12265679, 2152643, 56597298, 3750602, 132780340, 1954205, 45247029, 110129209, 25790180, 91262622, 89784876, 8478733, 29604115, 128680609, 118418430, 12965862, 106961350, 112123487, 111461201, 89135168, 22532859, 97175178, 22420703, 5907259, 55791626, 68786599, 14453078, 109471245, 43908184, 43309319, 75437626, 84125851, 25440639, 83842238, 27799083, 125403296, 72706099, 53024581, 126020142, 57429121 >>,
       << 16214033, 31193292, 28693064, 14211686, 47858864, 43401695, 23303091, 2012537, 53974248, 87777422, 42445044, 1608113, 52235749, 28557229, 61575863, 29540811, 8860555, 88310124, 109398842, 37373949, 87234140, 83739701, 49523652, 5897385, 9037049, 118844436, 29334741, 55176483, 40471241, 103018163, 80378849, 67051958, 131949782, 132939209, 13665188, 95634306, 71965066, 106201088, 132946858, 123778797, 114147484, 76397410, 23012852, 33814834, 128719459, 12716400, 80512805, 43534095, 131723411, 84674464 >>,
       << 93457866, 52152370, 90986267, 124091456, 130508869, 103536415, 93109622, 17841755, 44566533, 23532534, 85275696, 102235828, 118644046, 92291478, 42676804, 131267827, 114293671, 89438746, 64710444, 9061506, 44977061, 2368781, 81675959, 122420426, 78522325, 60251890, 51321020, 68588767, 85978796, 99564579, 31195619, 67567894, 78848693, 94573720, 132658234, 1783979, 31219836, 2847211, 82724918, 101863340, 120363697, 16650536, 41452961, 31728577, 99041044, 57512010, 101635803, 32688154, 83183615, 10655497 >>,
       << 8042731, 18462384, 50267710, 66937935, 39810955, 27113563, 20356881, 50432035, 27432134, 86173002, 5087753, 31952404, 123937876, 97349248, 80272292, 132681119, 126953394, 59555922, 99221211, 117753495, 44116005, 18021013, 37329499, 42619317, 86382807, 105625443, 102071761, 5316025, 69910371, 106270881, 131206889, 55686049, 86979318, 109080162, 38715788, 100737238, 3180065, 30737204, 113673670, 98364566, 44462343, 46000229, 32514108, 27624348, 72385198, 7257686, 121686094, 123168679, 89255596, 132657618 >>,
       << 33331368, 107569040, 92254533, 93452857, 96569953, 29855935, 81612860, 117132587, 51202173, 69990777, 43169386, 24635056, 59372673, 84527978, 811032, 8672730, 116751537, 65987111, 9393216, 127998238, 25832275, 6993664, 85143291, 133145673, 18996104, 125933075, 27409946, 16852512, 12315737, 23310374, 79541539, 73665010, 111564577, 106734378, 125065782, 27430524, 31717008, 68105370, 10491063, 57208939, 97306390, 62689644, 41803852, 22033022, 96861413, 26512868, 32873271, 56910568, 23680772, 81315976 >>,
       << 33416111, 40681488, 38299416, 77366028, 60165940, 129885959, 85309294, 27031585, 36488536, 115752794, 104862824, 64581639, 10739561, 127642829, 130534149, 48262270, 53451468, 50696383, 22517176, 63178094, 59240493, 56733465, 67819218, 81791507, 98640380, 58174055, 102049022, 20921653, 110005360, 128011167, 106509632, 64693042, 2658997, 102264419, 51193233, 57364292, 114627605, 11171324, 101852239, 121662603, 123685998, 40296396, 79884158, 72101452, 20508295, 74202557, 97529075, 23581963, 34533110, 51063166 >>,
       << 62230215, 41050127, 60881578, 38013916, 50351362, 75449435, 81339346, 64537834, 9655576, 44725929, 18341704, 95947337, 62982807, 26268523, 20766764, 122961147, 25451146, 561104, 1722586, 115649393, 67202790, 98028419, 97354208, 50232033, 65961801, 54298487, 124244152, 55810437, 126202914, 52968985, 130257316, 99615590, 50082660, 51544630, 65706438, 41313669, 86040102, 132542967, 78961498, 9560913, 54866540, 118782633, 5211257, 133207399, 123695494, 16707088, 51650472, 125108311, 75914700, 21791910 >>,
       << 26068867, 102401530, 58558918, 128459368, 34260204, 103518157, 122552327, 100875011, 96938122, 46785439, 68398476, 95177611, 65581713, 85225538, 92407482, 49416355, 93476663, 7744982, 87363169, 51718540, 124355242, 56913730, 98739178, 33123836, 32528051, 64119239, 4631527, 123677414, 109135979, 48508204, 84685039, 94832737, 90788307, 3792466, 93613029, 89345471, 86615201, 19848692, 35075212, 81260195, 61132251, 126737132, 91411196, 19779316, 34129962, 33207452, 80819114, 77623721, 127745513, 88933292 >>,
       << 112946352, 21666421, 1655896, 15667321, 103478135, 12389075, 86489553, 95510605, 123061933, 51586279, 53373950, 94767080, 78673120, 130747607, 120929589, 10784168, 69596863, 122131307, 25343427, 117575557, 56766698, 22256467, 111367101, 57293719, 33939802, 92856763, 40563223, 67195678, 129880271, 71565068, 88380502, 119004267, 51377017, 78662295, 41336223, 98506878, 55245223, 100993773, 117628479, 124060209, 97663808, 116691303, 11928391, 14666517, 85386667, 76854640, 104245716, 107043194, 46223620, 109283835 >>,
       << 19154679, 36107432, 100492849, 28122043, 124824750, 100433817, 53414658, 93819399, 41352528, 861718, 132476319, 22602089, 109573927, 65997979, 211873, 13001760, 9373966, 103850112, 93458046, 56081482, 70459205, 55947629, 87848347, 38700374, 98387263, 57841075, 22902142, 23676181, 50284858, 25018189, 94495615, 18029744, 26577865, 65293067, 24425523, 67459675, 127303275, 14795927, 60486666, 76113817, 109302952, 28531115, 24915916, 26969824, 7916438, 100651986, 24525524, 108606116, 101893359, 25754346 >>,
       << 34809624, 131928929, 121101070, 116986258, 54867187, 59153839, 84132688, 122536947, 83808429, 14655964, 116549573, 85420677, 22297072, 10711890, 39342650, 11503407, 50697866, 16734478, 37146394, 8625158, 45922853, 3981790, 78604129, 31511655, 64142265, 65121683, 90302303, 102077091, 13530374, 1275951, 8194860, 35712753, 100904712, 128206617, 969945, 89298044, 78174504, 105925592, 132555956, 5618266, 12997893, 28329115, 70106555, 106271790, 974683, 50421010, 80931259, 69803166, 132459051, 129125222 >>,
       << 102188542, 35679876, 125108153, 65219904, 63516094, 101590960, 45235396, 81117376, 57640289, 45171003, 49765936, 91517699, 119474205, 46047075, 134143255, 42308622, 109635374, 32158168, 126297680, 48480869, 89265296, 53481919, 50792779, 81981404, 7682829, 130903229, 47785434, 117182469, 44326109, 108215755, 13445578, 414016, 61326664, 116842103, 93725349, 53929804, 97337405, 112128329, 119181389, 124156380, 18637880, 3446768, 80786882, 16494625, 116635914, 71219864, 37509496, 127649372, 93853708, 100856534 >>,
       << 109394395, 33358157, 49449823, 60655417, 82993759, 92098177, 88432853, 116749702, 63780187, 69110587, 55448912, 88614357, 25224200, 419981, 132363027, 85640742, 128519801, 126424738, 109067882, 43242747, 2232081, 85064149, 48345978, 117230393, 6141035, 130137183, 108388574, 98759153, 43691252, 90990146, 59633763, 31347711, 81438353, 65033340, 53709262, 99214366, 82220752, 106563558, 10921193, 46752592, 57433950, 126041821, 125021594, 126362985, 124935834, 63904001, 132455645, 88360765, 115038014, 93885264 >>,
       << 121494258, 13482938, 98553090, 51654839, 39441620, 81493489, 26182785, 95555234, 19214803, 116750461, 69800523, 117606137, 76758128, 105342386, 114998099, 96189232, 67731180, 4260842, 17161260, 66830369, 106947472, 11689007, 40446284, 111716677, 90336873, 133721758, 73651529, 132502372, 117411759, 62653244, 22555671, 120313922, 59899586, 128184805, 15526124, 64715566, 88938318, 72567218, 32333267, 32662689, 28405950, 22875131, 101099841, 126729704, 88549488, 93940196, 12003335, 14155900, 58370404, 133326719 >>,
       << 96068373, 3922081, 21506414, 124688735, 124683888, 43822194, 121151433, 51471131, 102852229, 37628993, 29578370, 96526032, 34578317, 89379971, 63928214, 127708688, 120461871, 90006579, 16521948, 89318726, 18220919, 123847554, 71745187, 85033398, 97363473, 66029590, 12138886, 106775633, 92849750, 44667809, 117029887, 30038761, 125061388, 77305664, 102856062, 123996712, 80621827, 8679461, 86434410, 46066984, 50601468, 122160563, 96293533, 99719452, 98784581, 97311622, 51224263, 87767609, 86181498, 105371906 >>,
       << 75416933, 129687610, 114909301, 58648080, 108507984, 31322048, 30004485, 34775001, 15527644, 39054205, 11768256, 14949509, 11964091, 45665951, 99399128, 79483803, 125790284, 25253920, 99940902, 126434130, 15583513, 76885150, 49356828, 17101682, 114532055, 42060116, 128052922, 51028923, 77432467, 98907445, 225283, 41714724, 8306055, 79196483, 71887423, 25482265, 113698333, 52096010, 131513173, 56867849, 42901755, 103519570, 48992670, 107041072, 91174393, 125349313, 106913185, 16952687, 69759849, 89086047 >>,
       << 80747752, 79292610, 29815335, 14305720, 53057930, 1233262, 72248455, 114402094, 61821057, 42402900, 19421410, 109541524, 126552541, 39838982, 112369317, 29380829, 67086404, 91265494, 61174364, 19787096, 80727321, 38036341, 19578433, 100268686, 89301859, 113967959, 107547558, 111098897, 94350608, 4609555, 80380354, 42968377, 41458705, 67428032, 132920528, 92422327, 16571059, 36702178, 133794754, 113772242, 94827813, 77037211, 64194023, 84701730, 111224527, 28951443, 66441201, 39123810, 94508134, 129720857 >>,
       << 50560976, 7893691, 131686756, 108744569, 44713904, 20495346, 111116802, 96202745, 28268009, 113826021, 98335705, 125417461, 108772550, 30208616, 94007091, 98747415, 7055329, 123904149, 116156302, 104158156, 24027688, 114994903, 65431766, 97629366, 52587561, 40144760, 132122527, 109389080, 88483078, 122457083, 113886191, 21366552, 133018253, 2894515, 73543652, 52651678, 45286423, 56698597, 90986021, 63541573, 132917735, 46748995, 101698676, 52527814, 52487600, 9639949, 70846080, 97543351, 37988968, 37898265 >>,
       << 93466046, 123891524, 26184828, 94101212, 114924227, 73552661, 52851244, 13062011, 17569192, 43408507, 100967497, 106203463, 77897778, 116213148, 108054906, 7264306, 114059529, 125436590, 95239226, 40812122, 61408972, 87863486, 21970699, 77464756, 18463119, 59308631, 93409569, 64752231, 39068306, 120422573, 19437798, 28154362, 29277781, 107959162, 100446201, 26260378, 98692831, 87407684, 1225745, 48617120, 97436367, 114909339, 77266743, 13683207, 91042274, 105427924, 132672101, 115216626, 19811269, 50540462 >>,
       << 127560280, 131895834, 57325876, 91193599, 112965705, 22578497, 124283648, 7560687, 12891308, 47725656, 130749375, 63602527, 24109916, 126844235, 7042688, 15750026, 131570519, 69180538, 87254650, 45430797, 79643778, 58226527, 130154551, 19940502, 84150830, 96979075, 54223156, 32883478, 4562440, 15945407, 32327067, 53236763, 65582257, 40626311, 92339663, 80014633, 128118252, 23150813, 87616925, 100019082, 50381528, 104132798, 92851132, 133031774, 106746742, 90024647, 88384904, 12027404, 104385262, 62233240 >>,
       << 116084347, 109816294, 87283256, 51284717, 36938871, 84870367, 87670412, 59742764, 49301266, 1557250, 16106179, 15653496, 11091349, 16381483, 65661787, 86088502, 89763770, 121933913, 68417285, 30190270, 3090599, 78765739, 76904329, 132519784, 76857173, 64357181, 36738721, 93110307, 100040431, 12690720, 106615008, 79574873, 24306373, 51534222, 64987079, 134211579, 86516297, 94319761, 58204387, 40045650, 76695110, 16808950, 13346779, 43651494, 8522597, 95800338, 121987878, 115723932, 106733269, 72143514 >>,
       << 24815495, 54402540, 109101287, 94051987, 2650315, 52854477, 74633131, 109718005, 71996642, 105156174, 109011136, 71147161, 65573851, 8580762, 69645728, 112359557, 78479996, 72340910, 95797785, 109901180, 106041090, 87469782, 16654987, 101134160, 101064364, 27845315, 129611515, 88393430, 120474141, 15747238, 24248334, 115696143, 80410190, 93310297, 24150810, 714575, 74453495, 60026580, 107443032, 42184106, 16514861, 5253706, 17289389, 77186069, 27679708, 87595925, 21637275, 11787125, 75496963, 34461808 >>,
       << 114279698, 101075174, 4698329, 11356205, 131523768, 16739248, 67934076, 40074450, 48796148, 129691391, 73071775, 23032191, 56780987, 131144557, 126866419, 88336655, 11484, 33331239, 40345846, 6196330, 126998775, 126942401, 69718468, 121415975, 105065882, 39379055, 88470632, 71686010, 59716190, 18771026, 77453221, 65826121, 93294943, 42001565, 70151077, 122243245, 132341299, 133787850, 47260360, 81359046, 72237254, 68530276, 28164181, 92332443, 13288780, 88934947, 110026767, 6004304, 31823071, 4930347 >>,
       << 25242818, 19014267, 40226291, 114901806, 111753412, 28885391, 128503130, 18013093, 80818451, 74097665, 28996393, 79427788, 48192910, 37231423, 17245919, 97858736, 83525402, 56641896, 9980384, 73799431, 34221141, 34987131, 51241954, 87210510, 121287183, 21920355, 53695060, 61212377, 11174172, 126800921, 34115380, 90801738, 57088619, 126191417, 93216275, 19225877, 71927860, 27348593, 9470140, 84499213, 98337960, 36158213, 133594859, 84975906, 93523306, 86647103, 25854014, 95891180, 49948088, 75650769 >>,
       << 88223735, 86942366, 110126747, 68642629, 81194302, 22017488, 56329364, 110268964, 20601268, 42461165, 133204248, 105734587, 58200448, 50860721, 3477562, 129388265, 81014793, 33218577, 10405175, 36255595, 16726377, 71332718, 14762625, 91802140, 73600812, 54597257, 8852915, 44205616, 85923168, 11941909, 48696806, 122036850, 44763940, 104430915, 36675397, 19640030, 116615793, 107118815, 30301728, 36728250, 1323834, 13146204, 50621018, 131464279, 130026576, 29826611, 50819173, 127746133, 14093227, 105056727 >>,
       << 124236742, 16576358, 23586265, 70662368, 97754450, 117509221, 41144384, 79031028, 110238824, 108286616, 65715496, 12823236, 70995825, 46828593, 94013550, 76793756, 116151800, 37848959, 74026745, 36380247, 81532833, 13296433, 120335621, 6437523, 22917330, 42680752, 127038462, 100914674, 52286305, 24249450, 46328320, 108190896, 99495217, 90974370, 129922798, 105863883, 71361168, 74044121, 79808139, 118382873, 114035410, 54042937, 64003316, 79498519, 17122451, 34770583, 1274728, 92161723, 68929583, 95727125 >>,
       << 20869686, 88256603, 16960874, 19148862, 50841764, 76176717, 98706720, 35885781, 7095369, 123271150, 97364126, 85791097, 130795155, 49680785, 94959366, 104358063, 33435196, 91028506, 81698732, 56135725, 94863313, 61443076, 24575873, 58916214, 132371734, 47513265, 107168681, 62903261, 67408068, 38496283, 37020332, 127857998, 57413657, 69873032, 126389748, 96430982, 118297855, 123991941, 109256351, 30704198, 40961563, 85313518, 115148271, 11669195, 127165210, 41025192, 54561490, 103425282, 41974837, 113446945 >>,
       << 12098465, 85184862, 10666936, 10293588, 97972637, 32217185, 126817895, 12567290, 22161108, 77217700, 7705644, 11352822, 99778728, 38366253, 74378065, 124767324, 66149278, 108494486, 117353668, 1435415, 129139778, 127291648, 56906118, 90869839, 68274190, 125150168, 98085962, 18311107, 64378331, 66814283, 69123671, 91955499, 133943175, 90835090, 119196151, 71458772, 93668130, 16735821, 54421457, 1865661, 82716588, 25526064, 122257103, 111588272, 100115320, 978481, 95852942, 57039703, 94300263, 71715863 >>,
       << 100618729, 46313253, 32779491, 133442210, 99184639, 88741286, 127623394, 123541909, 110509963, 134106047, 118156146, 126827885, 70881914, 91815408, 81764582, 5684923, 81520297, 60217057, 129472780, 22620027, 90532832, 124847365, 118370716, 102503481, 70265183, 121305797, 30208193, 23463164, 10082754, 49264742, 112663560, 17893746, 68945564, 47417986, 127840185, 6832563, 56736822, 66505939, 50881238, 22881970, 50101289, 130154743, 15197944, 45360034, 122681066, 91142316, 33522920, 111632428, 72359410, 114189362 >>,
       << 102866333, 115132794, 15819626, 38931830, 40154990, 64843897, 39398948, 35534249, 28597227, 299883, 99056135, 84715069, 76348673, 52830980, 29187415, 123890528, 40912220, 124702899, 125240097, 128732912, 86298460, 69193132, 110827253, 119912515, 4755216, 125549193, 62150455, 119788504, 82912825, 113863848, 65534015, 7717080, 47747160, 790690, 82615071, 61787651, 44097476, 40043946, 47498680, 14383316, 691813, 46938851, 119480121, 96963395, 24985664, 53964665, 47584523, 1189670, 13601326, 57821509 >>,
       << 66041312, 26513965, 11374117, 71014138, 69030673, 120595965, 20630696, 55125778, 16621878, 122555430, 65419352, 927505, 20888358, 103273509, 88131849, 33572518, 30345988, 63176107, 53064163, 50238966, 40169346, 48921784, 57491018, 119748169, 24452059, 71998064, 108923572, 36169218, 14588794, 132790892, 58864146, 88084362, 112656651, 58969458, 21721032, 18773624, 47477880, 100272868, 58245146, 779834, 48215939, 118591598, 116838420, 95189821, 26637470, 14853291, 25443261, 38238599, 5403110, 17942270 >>,
       << 52955068, 56513148, 99847787, 44454724, 120929879, 4242158, 21516779, 89416497, 26708243, 127288850, 64329883, 128808599, 89287389, 131926457, 35675021, 15944033, 56518457, 65641573, 73836349, 66513956, 107350034, 91501121, 95874536, 17103900, 43605688, 100809580, 102595052, 104735125, 118348700, 53670451, 67358318, 97441339, 123958292, 99575219, 113153988, 110815433, 52190363, 17638581, 14728084, 128537445, 14479352, 106396132, 2839001, 16928020, 20876492, 46187078, 67108989, 1831931, 102996664, 91863668 >>,
       << 31743155, 6984668, 91041269, 111378670, 45921387, 57668666, 131055360, 80139636, 98976388, 1077619, 58294586, 64450415, 38851553, 37879379, 65220319, 11088383, 102126255, 57572954, 33252079, 82894635, 20467629, 97878086, 68617449, 25079956, 33482865, 37733815, 102908437, 15437721, 115986505, 35370495, 133446923, 94080690, 33199341, 89433358, 110140331, 57600736, 26630469, 63604818, 94819576, 105054486, 108709980, 13833135, 94106082, 98040240, 67422120, 82020513, 24318675, 25322723, 133218029, 114738966 >>,
       << 79349010, 84410590, 85158087, 19961679, 30787425, 16168027, 17756443, 53859314, 5149455, 36757086, 132929076, 25793612, 124701467, 19623857, 57217417, 2370465, 82740848, 26795696, 12205146, 116011108, 6839113, 51050068, 54666503, 70460439, 41130478, 93973731, 85001425, 131550062, 31061693, 29766168, 45121027, 57186933, 64316496, 8234220, 68432746, 57320744, 86419192, 6933082, 40841111, 14771325, 36137598, 48798364, 37655580, 126567149, 47113712, 95507402, 56112969, 33147569, 42928316, 120139125 >>,
       << 6382911, 24394290, 5488046, 71931, 6996855, 88641515, 99959284, 43169737, 28451145, 38294595, 63358574, 37602351, 121934386, 81405981, 13524006, 57835429, 24808805, 33858172, 127282454, 65939337, 48799048, 44866590, 40850064, 14969117, 13003982, 89784619, 1833626, 91665542, 74057077, 103409879, 115692228, 17489655, 44454486, 48394712, 99494541, 108721090, 48504268, 99714647, 104529881, 79042306, 70982664, 81163313, 49874272, 31977671, 87274855, 37036972, 28190192, 78427071, 51546232, 11707969 >>,
       << 119077136, 14276138, 17513454, 84497928, 99668398, 80776943, 16153687, 5508152, 78726945, 129967076, 122430301, 118654024, 87826062, 109710799, 25559565, 25894291, 94577871, 59830209, 124218593, 13238889, 10050169, 126408672, 73360594, 83082165, 46022986, 40463479, 97354917, 63645847, 132827851, 102138082, 27111862, 71612882, 96740040, 20625554, 5880227, 17157313, 25730441, 56131539, 73886279, 95509755, 33893399, 119666734, 117719059, 101918923, 114546548, 113560013, 121710628, 75208373, 130879217, 46619122 >>,
       << 120113193, 49125302, 60194264, 84539000, 96277849, 15761044, 122252107, 58535809, 9087680, 64803086, 56237786, 70298247, 125001308, 127834900, 67628209, 106150811, 2935999, 22405653, 80417043, 36795607, 93510326, 129853899, 17305260, 38877018, 6099554, 128285696, 75990691, 8159550, 106621271, 130523250, 93120707, 25526992, 99417110, 109324836, 53350718, 66441251, 91898110, 71466893, 116803745, 68919151, 130397679, 10064387, 22215479, 58753131, 100760978, 68354185, 51559796, 75497282, 104605562, 52378052 >>,
       << 53801036, 81499471, 36439333, 27772949, 24704966, 483257, 21475246, 76758847, 29233657, 79472028, 93512410, 1189346, 117998188, 124638246, 106118827, 68826270, 61128254, 67621275, 94993136, 96714498, 70474132, 34740194, 40723023, 114417268, 29573041, 39777260, 95060337, 36039426, 74108442, 15985787, 22965874, 30055302, 6122001, 71613988, 31972914, 39170544, 5246661, 85847718, 19882943, 126439273, 118595116, 37279846, 124453114, 17847118, 36297151, 117223460, 106115397, 6914893, 86223229, 131536549 >>,
       << 33421297, 132813309, 110516255, 28182016, 71752116, 15594065, 187899, 87059725, 46635546, 84917258, 81223137, 130488975, 49541127, 43561957, 11173109, 127027392, 94685468, 118646644, 73722452, 35438604, 96915882, 17933045, 54806853, 120572584, 82071729, 39580182, 43571790, 132239531, 7685767, 84014298, 109511218, 1396963, 110586252, 47712141, 29431208, 98042919, 129550637, 37539330, 23721002, 34358021, 130406576, 2098962, 72127089, 88223673, 131367263, 116498563, 104446355, 126032715, 104758706, 78283995 >>,
       << 14286501, 96986024, 100095526, 92357284, 51268618, 126923840, 87754868, 34540283, 116772884, 84051119, 85135048, 81113368, 73937567, 27670193, 109635352, 59349051, 29613670, 43521847, 36076853, 27369495, 78069593, 84530413, 108412082, 115188517, 101052218, 53078200, 20889845, 59868610, 31101353, 97953695, 97480473, 58237550, 49478024, 19909077, 121086958, 64291216, 12575001, 66566782, 24362335, 61658297, 24834040, 109467708, 115742949, 23637158, 25348349, 76458200, 65836262, 126614972, 97909147, 24213769 >>,
       << 86914605, 37855338, 2824921, 41629000, 21866570, 118816652, 23855089, 109722885, 52908270, 92256813, 81580498, 25212534, 9321974, 19263245, 9670211, 57229772, 32917412, 61072308, 122021504, 86586373, 130242932, 54023212, 13453152, 97214829, 70703020, 18426925, 97544696, 100722915, 108446948, 1582229, 80972685, 13385526, 50717541, 51538339, 2780443, 14768716, 110939307, 1818926, 102467954, 111470122, 86500924, 125450322, 5870689, 17740771, 33332025, 103363438, 11220004, 35924244, 19144226, 125976543 >>,
       << 84206105, 80481940, 1811523, 106354185, 129702746, 1261132, 128529270, 106254900, 14272571, 72795691, 98801898, 109824375, 45417925, 114450169, 94953104, 11403835, 27155151, 18687147, 64481609, 101961416, 75544613, 119774597, 59636452, 109449849, 21896876, 41256515, 44527579, 64277995, 20738427, 32723471, 7499483, 72950883, 92884197, 35897422, 84219725, 72962489, 16518916, 2846476, 110719546, 5976158, 13799637, 73100625, 39827566, 13766187, 68658060, 118978226, 112270899, 55738565, 19036775, 162459 >>,
       << 122428977, 30106747, 3221342, 30423822, 57329147, 51725238, 19780540, 47420453, 87961547, 38499846, 30317689, 123707260, 117976054, 91860958, 51639439, 92176210, 118678524, 95945703, 110432315, 121012670, 15087236, 66011040, 22757831, 132978637, 14782157, 30134894, 13654808, 128374758, 128291890, 37824471, 47957055, 10239462, 82637421, 44791783, 15884798, 48384619, 123925859, 124111431, 123463345, 11382241, 120203584, 5817913, 81135473, 20280697, 23899852, 57529530, 71199906, 44942009, 80478491, 24342463 >>,
       << 91191995, 57075357, 20162191, 119872208, 89559917, 92229150, 40475203, 83853635, 109731387, 38521233, 46759534, 117494490, 13948250, 36385523, 122974893, 67008305, 88816127, 49541440, 125209280, 35621515, 108812917, 121733419, 95469966, 107197490, 10250139, 105878477, 292428, 115657291, 125237883, 131271571, 19950518, 104392406, 88027250, 19674854, 42984033, 19834720, 52425387, 59954440, 96817080, 106951495, 105434211, 131042035, 64214057, 109340440, 9034683, 15188619, 77556758, 57371791, 128793360, 97537060 >>,
       << 37376435, 19416986, 12139593, 43359494, 133515995, 17117558, 24410491, 103016859, 51676160, 47326346, 42857838, 66331270, 56885777, 64597455, 93069368, 130573564, 55558669, 80764593, 106501980, 85443567, 44756934, 18551745, 107661532, 126705597, 87772249, 123695716, 33005229, 51430248, 56191544, 73731067, 66719940, 72309430, 71641483, 66115841, 71467508, 71969231, 110247005, 30885447, 51623796, 11222980, 77975659, 95955079, 56618508, 70725487, 77561262, 104232488, 93079853, 108889780, 100432911, 29438509 >>,
       << 94367587, 11710526, 31567079, 48547818, 384682, 27283734, 133399712, 114164943, 2302458, 48640295, 74943752, 63609317, 128529013, 17930505, 123601656, 14784930, 7996341, 122320927, 46888632, 48433612, 113917497, 113995024, 116336236, 104508214, 109925722, 18703143, 39553600, 61792283, 19346175, 112105670, 114529625, 74021128, 130435418, 125002575, 122534599, 56515994, 32547451, 28284690, 111108362, 30143583, 7498162, 100260020, 18495379, 15735123, 129124431, 93386109, 94484295, 19203413, 50661928, 98392536 >>,
       << 3536218, 93431984, 129508456, 57003442, 49886613, 7258943, 94140551, 14228398, 88952439, 78061980, 9901281, 63998578, 112398917, 79715350, 116833442, 21229647, 4051460, 19714795, 49022249, 18961944, 10602300, 32889491, 10343529, 1674728, 76394469, 111544057, 109214476, 55900995, 20094705, 102732625, 24484603, 63050755, 99798657, 18805567, 100409238, 70793145, 93759662, 127341185, 40199242, 63107095, 55233612, 96980015, 45276604, 59589132, 104877317, 86549919, 93314476, 1772938, 38489493, 14933959 >>,
       << 20922844, 8053170, 118266909, 86228754, 4310953, 81090807, 100815355, 23297540, 67551168, 21521650, 1458621, 53202657, 111760430, 56857416, 91255108, 127270881, 117571577, 60974645, 74377548, 95483399, 111336052, 34635469, 123366255, 76781282, 67360178, 41075182, 95207723, 30509683, 56864059, 125017134, 21045425, 36484083, 130610268, 12339511, 69994685, 50675282, 131255043, 127650862, 16795114, 99741856, 28435937, 53741103, 83086647, 7515766, 29381121, 52652401, 24654960, 110394747, 100125852, 130994810 >>,
       << 75067208, 81212919, 112972805, 10362848, 109596671, 92935924, 62872428, 64077726, 42035604, 87603904, 86153129, 54371584, 111032109, 51065827, 22122351, 7337905, 107822370, 49858951, 86791517, 56938098, 26136297, 36227990, 14549320, 14012339, 10443290, 48680988, 80958813, 104528398, 113629973, 45026244, 3764654, 32149161, 37877173, 21845331, 72688015, 14289429, 8766990, 28442071, 80142849, 1473309, 101538588, 122096124, 41489399, 25198547, 74046763, 27075194, 85683115, 124715369, 4344197, 32257238 >>,
       << 36127119, 11413788, 131085508, 76520583, 75805745, 6022958, 75663810, 132404979, 106062298, 64935475, 6131148, 6449014, 42222252, 12510559, 126635653, 41420243, 1137995, 131606069, 47868637, 100888705, 37903378, 128679773, 53436961, 67137866, 26156848, 42207776, 100910561, 52430988, 97400211, 47759672, 130708034, 17383462, 94309000, 90554878, 13070100, 44468774, 54665076, 120327693, 99515914, 67589149, 13556377, 67401071, 108380054, 104026817, 20157712, 3178988, 78809362, 106846612, 51286168, 64015552 >>,
       << 78699665, 116610019, 114357141, 5020855, 38939164, 21638985, 20339060, 91586685, 62157065, 10570029, 118810052, 84013952, 12521287, 127885106, 96430432, 31080809, 118702436, 28943676, 108377598, 91463977, 87807942, 18906261, 103190040, 96442757, 21615365, 133334122, 129341243, 67326285, 69296719, 133181415, 97807228, 81703555, 87428745, 70234403, 124852981, 103164606, 45823984, 60059776, 105408142, 17609040, 45502589, 39036097, 48360842, 83680829, 114884006, 126183607, 57834613, 5370440, 119545036, 95665360 >>,
       << 103908009, 91653726, 52027391, 32092885, 28027431, 133816349, 81924787, 81453658, 10066099, 128582684, 20454970, 76088145, 84260499, 133466716, 66776383, 13073617, 108008555, 2005448, 19142470, 102853368, 116830825, 41546065, 73435357, 116438398, 130049880, 107022938, 104883841, 120142965, 11699448, 66962870, 12631766, 61043277, 42106611, 22779115, 125366870, 39675858, 21672470, 9148527, 37596710, 77378080, 48765094, 47428314, 11976146, 9547433, 24049971, 95382503, 103608101, 61839630, 34620670, 132357914 >>,
       << 63520009, 131329867, 34363268, 102427771, 117663027, 59330327, 87280725, 124038759, 18850509, 126141776, 16638464, 130416768, 76334111, 65533013, 5314034, 48784400, 115293465, 38470165, 53813150, 54899510, 115024721, 83172511, 123096462, 91346543, 17311971, 59166889, 49221971, 68783800, 113391920, 83836675, 127781311, 42096774, 50154896, 11205911, 91563454, 55457991, 67906443, 60410362, 35276100, 117763791, 117512513, 133043074, 91611060, 5727818, 83297363, 131188653, 86418337, 7658285, 99461048, 106111279 >>,
       << 32858752, 93918223, 110224300, 75269356, 1066084, 20744991, 114495746, 14132859, 39011805, 50441933, 21234023, 76522053, 53590510, 114599014, 9795032, 29937437, 52106408, 117327619, 62045979, 89811868, 12549776, 46833660, 62529032, 62879488, 86232807, 71822020, 120812935, 109828990, 62391513, 14645711, 11518907, 24195880, 98217597, 14542266, 123139443, 128788371, 123814612, 53277039, 103108293, 58131630, 26772544, 53891165, 44120137, 8653222, 42585253, 45959309, 133739675, 81117090, 65269412, 28539411 >>,
       << 94259880, 99493556, 63917095, 15344634, 37362868, 61012513, 5138168, 73159563, 20903218, 127310035, 63077976, 19530531, 85928388, 28651477, 42974720, 76263395, 4204135, 132581713, 80675244, 103912106, 51040965, 8375220, 125689488, 108519540, 48518736, 105972832, 57728351, 131340210, 63539966, 28644859, 7258161, 28386094, 116503753, 3079321, 127861848, 101819768, 91760827, 56763408, 36218400, 33832435, 85320504, 23636496, 11219432, 19023738, 9295792, 36762949, 54367371, 10966811, 40042087, 117276214 >>,
       << 95590765, 60588691, 116942447, 56334114, 70434503, 28736673, 89878149, 119866281, 34822417, 24706569, 111474412, 7213167, 12407255, 120119039, 121016305, 57516899, 45905032, 129300764, 101089578, 39849912, 22083283, 26656353, 46879065, 126425267, 56250794, 64642647, 63820451, 71874437, 92453263, 105207558, 21567333, 129599273, 93508160, 58624154, 47606004, 122486805, 92999656, 76546634, 52229213, 110463297, 1332984, 75283856, 105102194, 119961025, 80145249, 26650269, 10443308, 97002330, 89652407, 77643527 >>,
       << 82746890, 19410197, 43450650, 89129018, 132388064, 110528811, 126026293, 98563672, 99701806, 110761157, 98880788, 98398589, 42481963, 1904117, 20200610, 120326342, 61560177, 125335118, 19795314, 67034462, 116004563, 42467541, 15248056, 106302697, 130187991, 90455408, 54544291, 35272780, 69886056, 96943591, 493503, 132639140, 60473000, 126610769, 111737711, 115060438, 16873477, 85133372, 60307870, 85753906, 130118384, 77628449, 13078988, 4897064, 29343051, 100087171, 131403449, 25186888, 56395082, 93475411 >>,
       << 73294452, 103936114, 22293702, 80657252, 50674785, 29009455, 46719252, 28153923, 127825861, 25656926, 130425339, 91218158, 77421674, 128191950, 1928845, 49694974, 109223615, 48827665, 2173155, 40526300, 120346985, 41200201, 67388734, 109931233, 116468527, 16743037, 93860758, 66992183, 87095450, 134089975, 61202946, 55573350, 55081185, 47208264, 47272989, 111157224, 72808690, 57156511, 70218664, 130737483, 102687452, 45073885, 15217605, 124332439, 23597329, 61582256, 57496675, 50079518, 23742466, 74189328 >>,
       << 79845027, 21831471, 72848400, 58502308, 51212562, 38255801, 113426275, 88530765, 92415704, 91305882, 58719406, 85108432, 38016951, 94233276, 83265522, 125883012, 124169597, 121585526, 115024226, 13317762, 133595390, 11760181, 108171403, 112371714, 13933416, 12031000, 87191136, 2204726, 82713066, 125157595, 55201022, 13915063, 66626341, 100655736, 100895057, 83728466, 124450557, 73112925, 13381785, 85030306, 59606543, 67560039, 78011850, 108162127, 4380267, 89618537, 38910317, 114313944, 56457460, 28436861 >>,
       << 29914362, 104271102, 61019389, 74032876, 51147669, 15368078, 26247650, 114936362, 63025187, 127580862, 16702129, 47058571, 129871234, 106535484, 122678938, 62269929, 55423162, 121868833, 110114636, 86551565, 94467128, 105311949, 99475879, 53124525, 1020743, 126113233, 50283839, 104984577, 30056261, 68123659, 38064741, 35917890, 118058874, 88406780, 35500464, 41258084, 112539440, 121154727, 106721643, 122049241, 55662309, 90368905, 32420888, 558017, 120821087, 122011840, 55640853, 4385512, 2084410, 3522788 >>,
       << 20585690, 106100473, 50251887, 112846188, 109616559, 69654067, 110063152, 99488277, 80523345, 42610231, 44975010, 22872143, 128736355, 76797698, 133255269, 57716265, 32458022, 74590103, 130659659, 52527771, 25858441, 82714079, 86494515, 52790213, 111206085, 6923083, 107552912, 125082918, 77558199, 57593155, 17296700, 126083021, 85399182, 52400170, 131178452, 97725633, 23315937, 54105718, 121355827, 42698007, 69427754, 21265947, 58707047, 31000202, 13365122, 95297923, 107531482, 16955763, 67680235, 15887718 >>,
       << 84750585, 77434736, 105264453, 52614983, 113149668, 102296976, 84197247, 123032742, 34927495, 112385587, 74209721, 21347754, 127332399, 43272417, 27348550, 12516397, 12517871, 3441373, 58709658, 1548620, 84408740, 103351976, 79629793, 20541837, 3733713, 82959929, 94969231, 72970485, 123560087, 130513303, 10572666, 76744869, 51325510, 3394349, 99635137, 98538517, 17521857, 131991618, 60895423, 85156202, 84758735, 104366329, 48066234, 25039011, 32174926, 87580116, 120515338, 29763482, 39852264, 26015276 >>,
       << 71862482, 112804201, 32917490, 97484029, 104693713, 108326778, 105501603, 50748656, 103400208, 34960996, 88484070, 6945615, 36905154, 11135154, 125490340, 19296419, 84213304, 3105908, 85682794, 132177328, 77759654, 116358589, 13880694, 14888976, 61623079, 124446546, 79979598, 16466411, 14371585, 19036823, 37911547, 35164329, 120071822, 24243439, 12452337, 10385959, 66336447, 113363462, 48505926, 122503087, 112516853, 27913590, 52452316, 13511929, 65905864, 106762345, 2947014, 55531931, 9875199, 65299245 >>,
       << 128743949, 83977718, 10242515, 28225447, 92252731, 56358979, 50365788, 119415327, 42088657, 85033882, 121910284, 60515891, 108521617, 21622965, 24133211, 40098215, 1361006, 121284262, 23981630, 88538924, 76140891, 84720028, 81423836, 114730512, 4221211, 15731275, 130985211, 46011239, 133377468, 46544523, 64949433, 133535371, 82410355, 80529679, 73347676, 673042, 21258513, 70027905, 99548863, 34158548, 124363889, 16320018, 25883252, 81350811, 3966837, 71934552, 3092131, 69524101, 68685213, 102134453 >>,
       << 20447536, 29032170, 116349893, 48974793, 15406645, 120604342, 29119581, 3959103, 43961638, 18597882, 29495837, 11199497, 97676132, 92825211, 126144277, 16989313, 35915393, 36730893, 64635885, 26741208, 127940279, 12343983, 46782042, 95037368, 74020689, 87499829, 39503079, 62685550, 100018306, 108583716, 66545378, 58527249, 68807596, 127016366, 53679326, 123795466, 25911301, 33566934, 23214233, 26558526, 92215290, 113552999, 119093388, 96287279, 37726289, 129100180, 52724203, 13810279, 78335942, 106455224 >>,
       << 102871025, 78863503, 41820248, 22233584, 106582234, 27626276, 128011778, 96913299, 65475674, 58179582, 118495105, 59882277, 56873060, 80038028, 100271282, 36463456, 109507197, 42781724, 83605694, 14436339, 81509842, 51411543, 57621412, 26806068, 76120515, 47367517, 50192126, 120513383, 84919350, 109970180, 8625670, 60317901, 22447787, 119379916, 4531191, 128593661, 68633149, 33965629, 78768256, 55003534, 39389352, 81051682, 110955972, 117742782, 86583583, 127557586, 129539602, 71202261, 47278642, 53459816 >>,
       << 4018472, 15388056, 24146337, 108587573, 43309532, 57631320, 106152314, 24953074, 48015656, 32926044, 9749620, 28881529, 88174955, 49883400, 49924201, 19466895, 104624672, 42205153, 16415312, 1292919, 42760310, 92381044, 1463110, 96207619, 44140102, 28692049, 62461793, 76164433, 106735228, 43159218, 120627374, 31225585, 75382123, 8889930, 51753132, 38066060, 80772485, 28477668, 70767956, 29187446, 13813714, 75290602, 37319033, 96135544, 81591543, 127006351, 118562588, 108370949, 115415520, 90106396 >>,
       << 10042733, 77034049, 119811336, 86740906, 56606345, 91554196, 101495607, 58412302, 42652151, 109171958, 42965968, 26595298, 26457435, 6665217, 107739951, 66294734, 66927800, 6280294, 132910409, 36831418, 56537506, 16006675, 16655437, 60771788, 22969985, 80722659, 43872387, 79345641, 51386266, 31732012, 77364953, 2854636, 38257007, 2393947, 86391469, 105133502, 114904208, 77277029, 132601044, 623711, 122358671, 61977968, 38166934, 17590313, 112963392, 129768887, 54064349, 4967155, 120236203, 71600729 >>,
       << 123216502, 70801688, 5250630, 45283701, 86540325, 2184030, 9321973, 63068018, 12766765, 111380610, 107711509, 55710942, 97073464, 40399304, 36866059, 42572475, 101158865, 46415774, 53733308, 10706173, 74685481, 103966855, 42033591, 66279210, 82184286, 6318000, 52791522, 40056450, 93476867, 132065793, 61012928, 66214520, 113906869, 86046600, 129809014, 122201459, 16295769, 113155697, 50184824, 125856467, 82943469, 13790014, 3930993, 30066698, 6420202, 110790900, 1395331, 18620619, 14111073, 133350731 >>,
       << 43333406, 115613643, 92287963, 97207640, 58476310, 30379009, 22842710, 11813404, 25657019, 97188118, 121101499, 109022643, 49510172, 109541478, 121182580, 72149862, 132817170, 663217, 125374169, 92374176, 116502984, 7045220, 34854691, 118557115, 105353405, 5781587, 14871807, 6442905, 127123631, 40841125, 10071990, 35396856, 44201786, 92331273, 82241997, 106250488, 109049961, 50943206, 36226982, 93773206, 22862463, 124132394, 18490280, 78309763, 61833270, 16092896, 16950183, 42860106, 115681575, 19864422 >>,
       << 101070623, 78400641, 119158285, 114105697, 129632348, 120188898, 55471370, 85483760, 59965761, 89689017, 16424667, 70029938, 70811787, 32282510, 77562374, 64146251, 88754019, 65780623, 131043405, 37653656, 43206211, 103702518, 98094983, 64787744, 30310459, 12321103, 35408251, 102837889, 39759879, 95479992, 11112459, 47380159, 74962645, 112144561, 117154941, 32531190, 88514011, 86856891, 98686037, 114872051, 27634253, 93276632, 10471228, 10085710, 130428118, 66384860, 8088890, 28517975, 1762024, 89992846 >>,
       << 29009211, 62834081, 109858746, 51681908, 25221850, 65450681, 14030412, 45694444, 28006066, 109252615, 79258668, 102220561, 70819264, 68978156, 115220394, 42058336, 102070965, 126752720, 41852500, 95094919, 60937796, 87951446, 20669385, 113790726, 67714375, 14181508, 122691816, 17456426, 29364802, 123037021, 48807442, 51751100, 130870966, 60724380, 116482034, 83279154, 68915977, 27248980, 104692654, 53714593, 25226688, 9212612, 37290843, 56786713, 22038057, 92109063, 41224542, 127707442, 116746791, 77476147 >>,
       << 87024488, 13698845, 19768893, 61868214, 117601068, 14384568, 99995696, 14790683, 32287747, 2226394, 120003809, 61853813, 25102710, 35803474, 3836781, 63919907, 88836768, 71254233, 60752435, 47238845, 35645373, 15881472, 124410132, 73860588, 11283250, 47570364, 57911411, 28463020, 20215880, 53274774, 67402853, 57827496, 68172784, 44793758, 7134621, 59235732, 36586258, 49631122, 13128198, 6594707, 87056537, 51341304, 98247592, 124556730, 56718851, 26029062, 39460803, 25427499, 54048419, 23708904 >>,
       << 79731929, 37034120, 71076709, 81530308, 66252048, 69607791, 58192155, 14654503, 91423818, 6693632, 86750938, 33412730, 128711005, 14909280, 29471497, 15460259, 7132030, 120132713, 4789956, 77206131, 35725839, 32046782, 8837886, 71421511, 13560284, 36971545, 30395619, 118460605, 83244618, 93886948, 96076179, 54299043, 52601013, 52732189, 13596829, 29512907, 98505661, 110604622, 118048205, 92836226, 36006180, 66460815, 27609308, 22955139, 105458580, 27323438, 46658526, 85483165, 38653705, 94738032 >>,
       << 80035829, 38651837, 98500011, 416997, 12649023, 24840859, 67543749, 121840496, 94015656, 83499311, 63989419, 99199081, 40979918, 114429194, 121690887, 92333196, 32026965, 22848229, 42293683, 91461662, 9322043, 22366774, 25144941, 44581131, 120778402, 61098100, 19036590, 129150073, 1709239, 89393218, 63699826, 57434792, 44835989, 2795332, 23825666, 130777842, 35410956, 118280383, 10331687, 22914336, 91161075, 102040470, 114499757, 1306458, 79726022, 47263919, 130129661, 63596407, 78270257, 135086 >>,
       << 65539501, 117201408, 33220287, 63427036, 14681540, 6063489, 109914446, 2334156, 76137251, 91274263, 132930996, 39011532, 112119991, 30640252, 70500436, 67531176, 22455261, 101333375, 19674031, 104053173, 12604400, 13420761, 40883024, 107896640, 98809274, 45053851, 60749138, 65855518, 98625200, 47081034, 132847783, 73244637, 34539524, 89041184, 65296027, 34029139, 48894086, 61572485, 1820133, 111098654, 47328711, 40417525, 95315679, 44793672, 119637980, 69502107, 103955159, 89112118, 115018708, 116115479 >>,
       << 121086781, 113239110, 79959344, 65009006, 15134534, 36230390, 92044391, 69700460, 97739435, 85872544, 2781968, 19850853, 131350493, 55072076, 114926013, 29562206, 88498728, 133424107, 19009676, 47941821, 66817911, 4147955, 32798491, 77522039, 99457004, 93389511, 130632851, 57810328, 48240526, 27690126, 99906995, 11982151, 26017047, 123567182, 128153020, 50704539, 85729393, 14486341, 129580916, 36765441, 117728279, 84139980, 91107198, 73137443, 120691450, 122458973, 60299910, 132517412, 128621670, 117587190 >>,
       << 70720244, 23481693, 35609215, 122182066, 91142744, 46821190, 119184658, 44452330, 52482651, 79074084, 56008290, 126871521, 133404866, 37077262, 41516670, 25578230, 5516345, 77781432, 69803651, 94198784, 46073515, 111960612, 82190565, 16503581, 58177965, 106747775, 61072780, 76056143, 129943300, 106370980, 106346143, 46573258, 38709538, 14789528, 130120046, 1118688, 66964850, 124451110, 92009836, 19747600, 62588071, 91391947, 20163227, 70220858, 129744448, 38893851, 83724365, 74912396, 89163564, 21824718 >>,
       << 40754622, 65340518, 38689596, 8672678, 107345334, 39557552, 2092776, 60915814, 5496631, 29168908, 37985938, 110792788, 79600725, 16567268, 7139481, 65547434, 41046667, 683201, 57756952, 47278935, 88617699, 111952356, 86129, 6697739, 33746828, 18484302, 47005495, 117940083, 38019256, 105396255, 115294443, 67376391, 89298543, 128650952, 103198048, 75262472, 20808715, 128001468, 11543189, 95723694, 36328564, 19145387, 133669348, 98388726, 26404306, 57988874, 78547547, 123246749, 10833778, 39030787 >>,
       << 29374592, 4313313, 63508844, 125216384, 47597933, 33383774, 108945749, 91066765, 85502685, 51840367, 56715484, 53568120, 129776035, 121354680, 13171952, 119860946, 35065845, 123506365, 40536794, 80133190, 41706253, 23260196, 75686398, 58494269, 91123530, 117565657, 43282519, 107962089, 77600317, 18679934, 91713816, 103033629, 26777331, 33557176, 18212104, 55876491, 74394708, 26779547, 40407893, 40935883, 11488759, 39907513, 76056500, 124435758, 84331525, 61895093, 73260153, 24611796, 50461294, 105012719 >>,
       << 117564190, 111917767, 58638761, 12890579, 18603902, 70675216, 59310992, 93165006, 42045107, 67620927, 125477444, 91961058, 95643352, 47990755, 62864748, 47539093, 57400784, 62619624, 56439314, 129043221, 55063980, 61912488, 3714198, 122481500, 75015510, 3546316, 128512367, 102914087, 56494741, 11868737, 101449336, 18869078, 82571893, 121715183, 40586096, 105579970, 32567348, 77889556, 68747232, 50078131, 17082542, 83334410, 72916404, 120784199, 75910137, 117817024, 39371856, 7185483, 101379370, 113428387 >>,
       << 52701842, 16902822, 54081976, 89936512, 798977, 62117013, 108378268, 102407524, 117428549, 69525894, 61769783, 112635254, 7294228, 11362751, 7340737, 36262253, 111386525, 132361969, 87225409, 14367862, 44759391, 79770922, 13072680, 110318937, 39000574, 75892528, 64621527, 92689810, 44467352, 116006278, 8169131, 16299760, 99384595, 78466030, 90518180, 68561216, 99235678, 96227585, 7116259, 94163489, 27523284, 69291785, 19347740, 75436973, 99378042, 129825917, 66478665, 18307667, 30003511, 120131891 >>,
       << 90688336, 85854802, 114387823, 20773615, 40385068, 84320873, 41727060, 96521610, 132762623, 125699091, 865811, 108128062, 65089577, 83706754, 92311557, 26937481, 15395963, 9011655, 4793, 20538276, 81039410, 118098053, 16244964, 69769403, 13000817, 33179439, 27419830, 13905899, 63584629, 3309323, 111766652, 67887931, 59567958, 52440731, 7469640, 124291581, 16349251, 40255085, 54298766, 64923735, 131895260, 24701959, 110094904, 31531482, 112973853, 113780164, 73379415, 34933052, 110284889, 82243262 >>,
       << 91445282, 58939010, 115335157, 88336648, 82833614, 16535158, 58029531, 19628855, 85388938, 2906871, 24804490, 19016797, 109863934, 99938317, 88243507, 32303777, 22921098, 68654380, 99544553, 93902569, 73374285, 26890661, 63908898, 64487117, 38927998, 38849191, 89595102, 13424414, 128727070, 79022539, 66164526, 49303460, 89617131, 36934215, 52504528, 51783989, 93637360, 107354747, 14406372, 62272153, 55954896, 109185263, 57020114, 19886575, 3754158, 38040286, 61348545, 16123105, 75726861, 52268329 >>,
       << 1479031, 77918501, 40635970, 4574615, 86585062, 87298206, 119886089, 88206742, 83198410, 59657013, 5721942, 121884237, 121743322, 47610634, 129224362, 18697002, 62801428, 118436969, 97048177, 61518719, 37165431, 1224073, 131768749, 21248616, 48016078, 67194545, 114868842, 115564438, 67539115, 28290431, 46819717, 121138280, 94787863, 70471776, 52428709, 68859755, 8424279, 23420574, 88035991, 20320928, 47226789, 88037888, 96530612, 75584413, 45538877, 61670595, 95990147, 115247917, 105588666, 18795756 >>,
       << 37358181, 105355673, 102355457, 88374850, 40658560, 123946976, 52872219, 9155005, 122964916, 112652360, 86588420, 64927109, 50536025, 129191946, 63317523, 81314709, 88445699, 24209460, 77314639, 95093284, 124475164, 68045733, 104072157, 88436745, 70522545, 34792727, 17370722, 93652930, 43496826, 79034390, 128204048, 77943552, 46720549, 78449352, 82876094, 111385449, 54193609, 9069088, 6030286, 3962354, 114357689, 98365153, 21364734, 31098826, 12957438, 89289816, 14256665, 67032883, 125390752, 91177092 >>,
       << 63943071, 43440826, 101993297, 31076043, 131711667, 103581634, 108522479, 123113662, 98334222, 106784286, 31758221, 14150817, 120768347, 118212990, 23353610, 97732404, 119785678, 51550809, 101443620, 130636762, 56378982, 123799184, 8639582, 8311653, 82128314, 33619373, 15364411, 5022195, 113655820, 100654564, 9782015, 59260945, 102455364, 50240663, 81407521, 84730853, 112834073, 3953980, 123956896, 23362909, 43105260, 14450015, 93781379, 60332161, 50684499, 17880034, 132724000, 85549812, 77011402, 74687900 >>,
       << 26807901, 26268818, 33889297, 65914731, 58722249, 91113573, 38398260, 30265633, 27003632, 99610211, 21755295, 58258950, 109231452, 70938021, 108538147, 106032571, 25809507, 11545180, 78129206, 3253847, 84438474, 128826515, 89745791, 12912566, 27318624, 4461288, 108717547, 18865991, 119895490, 702802, 48259460, 103936285, 54764506, 76275267, 73360838, 116030039, 9658994, 45729498, 24871129, 91584970, 97975869, 128546171, 122270806, 97748559, 86198970, 70887697, 66595544, 25519742, 111723227, 27846793 >>,
       << 76553774, 111075335, 63583349, 67222987, 47258874, 47846632, 83010827, 120763173, 74987083, 114544308, 18505072, 107588379, 9013348, 58905216, 57379655, 83949256, 50481733, 117303194, 9511690, 76390345, 10488284, 17071472, 105010253, 69423699, 40027348, 13544314, 15827960, 66936024, 30947052, 6909395, 80730565, 72549785, 44415303, 3025600, 30067619, 110236751, 126247546, 38909246, 123785430, 111152210, 33739900, 52402145, 94391746, 48037222, 9120472, 117097254, 116967171, 21188015, 129938171, 38663966 >>,
       << 10036415, 71729149, 77222958, 32399944, 114513923, 69492537, 125065293, 82040231, 67115173, 41908052, 53582355, 83033115, 7603192, 73275043, 93619268, 119696494, 14881319, 78218402, 63213691, 125752197, 123130180, 132195594, 35306385, 87675315, 4023583, 4331840, 45371664, 56560115, 35014869, 26912165, 44901365, 119189104, 102641117, 7971455, 18695003, 27411730, 73428820, 109623990, 98498722, 44239393, 124040569, 101649093, 89031467, 122449455, 117879428, 8365590, 31624005, 66243846, 9786069, 108134132 >>,
       << 127238083, 75679497, 121376294, 81873043, 94367253, 112072266, 102753632, 108379137, 4746217, 46418606, 131675113, 9497661, 127494464, 55866810, 80282015, 99225742, 82199318, 124737069, 10817074, 119120734, 74011044, 64259620, 127050592, 17376441, 36307023, 97083679, 5602379, 13966860, 4778162, 66652083, 68129491, 30231877, 87286750, 47010790, 57917038, 64101392, 40724121, 104896769, 114062721, 117635100, 130387912, 30568777, 2878065, 124989794, 7429830, 3537149, 103832611, 104934447, 108899321, 26330066 >>,
       << 71697212, 81623020, 115466769, 50920647, 91528600, 91750576, 99042425, 2428651, 74154752, 64716210, 6998168, 51959009, 102768033, 50630659, 93340448, 16809078, 57675860, 94131964, 57288633, 73758671, 18491234, 15513314, 58781037, 15836692, 120412995, 82631573, 131873555, 121272601, 49353022, 47216333, 25990676, 46053543, 58589370, 123221080, 7774227, 31966664, 31142999, 12346797, 79002900, 1348841, 30484320, 55440710, 100324488, 101008109, 119230350, 108412360, 106458930, 71969904, 76242194, 6144449 >>,
       << 133001545, 107611358, 1999650, 117206410, 96613524, 33544016, 109068264, 7634795, 10282645, 7604050, 17007519, 58861974, 24238846, 37929390, 5867922, 42161262, 46931572, 80854908, 87940656, 119510780, 32781920, 133961212, 39246971, 17410219, 81352565, 53394315, 64250209, 88259272, 16425076, 88126056, 10308436, 10251264, 33581121, 125945908, 72966957, 27630190, 66428279, 94657748, 98679373, 109176033, 47910133, 120479224, 122822758, 115260837, 29566459, 59531177, 95715206, 40630244, 126356191, 49248998 >>,
       << 104717799, 74008439, 39283302, 116631305, 87730595, 32776746, 70711829, 119853542, 35907973, 42796523, 93653330, 72668051, 67571298, 14009401, 7247426, 46524622, 120853048, 55141186, 94690831, 127582467, 83466217, 65257692, 37551952, 10528854, 27320680, 122413173, 18405476, 112934198, 130988235, 69926758, 30942008, 40928246, 99577294, 74217795, 28289021, 16474964, 49981337, 97295874, 109572629, 105755524, 19053714, 4814077, 131252818, 31555291, 93729868, 59093033, 87229186, 102568111, 60903036, 127915530 >>,
       << 15332850, 2857448, 66962229, 112249669, 4530678, 36278860, 37308143, 78952257, 51563318, 40320729, 111022065, 129533056, 11340498, 8015488, 37459158, 114699012, 81838954, 51531052, 66485758, 2529799, 115799406, 51350116, 51628627, 59595320, 5961354, 30124961, 27612629, 50912405, 24753345, 88573727, 57859244, 71469858, 7014171, 88637717, 40956281, 4201833, 72685498, 102407631, 46681534, 125792061, 3488600, 122145380, 81703604, 101264332, 119879162, 45126455, 123842520, 111153426, 121795821, 35236547 >>,
       << 108749066, 101108679, 79317124, 29064063, 101636672, 3670202, 45760780, 97413385, 111298635, 83420414, 58260695, 116197963, 57384680, 105040495, 97875074, 124630082, 98705661, 100985515, 7666327, 108366950, 14657945, 74261885, 52091317, 127838841, 96810847, 125154366, 90995529, 38576654, 115227810, 132995159, 125893017, 71774457, 62210257, 56886173, 76853413, 96532100, 76276344, 103215090, 69647305, 34910126, 21816939, 128889956, 51176016, 62724302, 100077283, 133226271, 124105917, 31974274, 17699655, 121831122 >>,
       << 2037883, 37674933, 107319008, 91616850, 127636661, 36828381, 11480563, 134057484, 33545387, 103527395, 72853994, 39704948, 45302825, 76649413, 52962477, 5181637, 82617353, 36811880, 48545863, 36070658, 88480345, 33623322, 105015478, 87648351, 108751188, 103557557, 81604268, 1656128, 16684124, 41190770, 76294869, 88687917, 43082466, 112205993, 35502943, 113761962, 23996035, 59566993, 62105800, 2317495, 59043624, 1190605, 62604450, 4966560, 129638956, 48147073, 64452414, 85596429, 113323427, 74706716 >>,
       << 29238325, 54842825, 7863123, 77788611, 126008201, 10676603, 37103909, 120399245, 81916907, 74014080, 42147927, 127948859, 8595771, 59114791, 24132872, 34629107, 102807669, 105593879, 37063466, 34834976, 116642637, 66428236, 17075512, 30523650, 84602558, 23420365, 19716823, 116935743, 82939751, 88043897, 6654471, 31228768, 15360757, 87859036, 5167621, 24730353, 91864167, 68010697, 115503787, 59097257, 77831614, 42591907, 5631183, 74277127, 96282120, 30595256, 8162164, 127735520, 95905218, 133140112 >>,
       << 34769739, 130900178, 34553693, 2163344, 91051671, 113404705, 115090400, 114005521, 47423826, 72536810, 96411184, 6003970, 80608327, 31500479, 46939919, 14651674, 10399074, 68040058, 59567530, 15191106, 68590026, 10395193, 31806744, 27386042, 43726665, 76553214, 49843009, 111284998, 110419977, 91404455, 55830504, 9582229, 86152618, 57240549, 117555018, 37994945, 19203803, 3314453, 43827529, 81465696, 105785643, 48356895, 44961030, 130875549, 54779294, 120445945, 87507034, 50293477, 63174275, 126497463 >>,
       << 130661119, 39468472, 83472202, 4181876, 21516822, 49432646, 5987530, 39040263, 124863895, 20141148, 122389476, 79353203, 3427288, 14258231, 81743716, 28384317, 108452516, 42024344, 68557897, 96068750, 104807100, 99595381, 68207069, 105155180, 78045796, 95675797, 46177977, 126156589, 28839191, 50847002, 111498259, 78206824, 4375434, 88189010, 97476935, 20142683, 51148988, 102356027, 133925247, 87135770, 10528705, 128202002, 10376565, 128664491, 125563082, 133186858, 30142752, 75887023, 67578073, 133924189 >>,
       << 77099930, 84600705, 73582591, 98509269, 56113763, 72338977, 98387723, 16272875, 113762285, 117907536, 70834264, 107133335, 6903019, 81483852, 63394946, 88476025, 70390228, 69838315, 59192355, 42538880, 36129093, 26175623, 112207220, 77207907, 39334559, 122281681, 32753017, 44115287, 32624751, 107240763, 103031354, 131194441, 48582114, 30989625, 61179282, 42253938, 100420130, 130512896, 15490996, 93022701, 32352710, 59727893, 98354526, 128528042, 118142038, 55019311, 48570867, 10695820, 47242574, 75223282 >>,
       << 67866314, 10260108, 122760300, 48626679, 87688458, 64982119, 81231063, 30917031, 60259467, 105535955, 56217126, 30838308, 76415823, 111108267, 110969058, 132438668, 16814965, 124247625, 72157584, 32875817, 104213122, 122039581, 54709486, 90476858, 78484532, 89375941, 18540857, 81274963, 34934049, 106817977, 38505078, 45844991, 42123474, 15832863, 10939544, 54828316, 56508695, 67783433, 131969279, 19917719, 77310988, 66330432, 84910129, 118305040, 103702653, 26589097, 120778838, 24147877, 117629181, 60944129 >>,
       << 2082019, 22383617, 16212004, 56186977, 35349744, 102744953, 74434303, 95480058, 124839286, 63063577, 99704175, 13555369, 16964845, 116696784, 4573558, 111918601, 57904194, 3212026, 92616482, 22405721, 132866623, 9799868, 17767441, 69108317, 116350662, 71042742, 123295492, 52091796, 121367775, 56688023, 47562437, 17106450, 53998141, 93540186, 74751326, 32404844, 95560809, 39378393, 15975888, 45205643, 120450521, 110691451, 120575018, 45183120, 79386833, 81706040, 82762623, 14464884, 133430420, 96929303 >>,
       << 6071701, 9898898, 99153134, 123577444, 47641606, 127495977, 60249712, 122228625, 54878236, 84668837, 60364921, 99414732, 112045586, 58477341, 38827999, 101691412, 64036089, 93967669, 18066449, 98441071, 24622346, 97134371, 102804835, 79129152, 122989320, 110072772, 125711202, 68367019, 11246035, 20435507, 120205286, 1044716, 79665373, 79597592, 49643635, 90450278, 87161631, 60871384, 50918794, 43008309, 58866156, 23719260, 68272154, 96976762, 78930879, 37486955, 126804627, 103751152, 13005510, 31173885 >>,
       << 39909444, 66208728, 45783977, 6481098, 75716426, 69481516, 120433785, 70490297, 77823224, 68213192, 113288543, 124559899, 57269299, 38286573, 43325492, 51548700, 42758855, 101643114, 23946564, 127978438, 19219517, 5628343, 109251509, 126842820, 98599798, 118431597, 132768897, 98111130, 28277083, 57785785, 69677116, 37346918, 77193691, 118055731, 82607991, 42193677, 13350172, 46619939, 38223995, 22225454, 15911656, 38633655, 36755323, 65315141, 58910408, 30015561, 118829553, 22725849, 38718971, 126057944 >>,
       << 123170678, 34819972, 132715237, 81358784, 101128871, 14243111, 124086417, 31094836, 89447205, 37396912, 18925119, 12881682, 27762012, 74110122, 112580487, 68276312, 101316230, 22662988, 3670871, 80314752, 121137043, 5334488, 128829785, 119540272, 72454722, 72197852, 107238891, 26190263, 894575, 65547360, 111736861, 110380419, 3459771, 49598894, 27265115, 37827591, 126407055, 127222269, 76660490, 57244204, 98259378, 59703357, 69913195, 16935418, 111540007, 60914632, 39586388, 123211229, 14712259, 96133569 >>,
       << 94800960, 123370743, 113379637, 16098153, 59647037, 119303421, 58017753, 66203639, 35306850, 11658665, 116031595, 18363405, 133288572, 37373355, 98198218, 89753485, 15631350, 129981759, 47475650, 107862880, 10612203, 99895239, 106477642, 29855629, 97624820, 9979132, 43904728, 21035567, 68056464, 45008192, 37058592, 60862915, 84640912, 98720057, 68832771, 90205248, 104293291, 9943990, 94866405, 92333418, 42253072, 119758788, 124115157, 5148168, 58166960, 13480667, 125140314, 94637414, 106595370, 69967272 >>,
       << 42617779, 25554877, 112934962, 74916347, 88735423, 112425471, 117785925, 84031142, 4783007, 127397124, 85160766, 84192774, 1069794, 33005982, 18371007, 78697675, 50493924, 117053269, 126589110, 29556025, 90375189, 26263497, 35606090, 63097822, 20325007, 65029451, 109235628, 25112788, 98456848, 66669489, 37929886, 17688813, 26652012, 85197752, 117556469, 11906683, 127618612, 69297448, 115045637, 97077481, 100588936, 28747971, 429189, 58293280, 9027654, 65859451, 74858214, 82036182, 27990700, 95293313 >>,
       << 23906194, 5209356, 56124397, 92339335, 35309169, 82326231, 51041690, 84694927, 78369591, 31503019, 85592608, 46802228, 64992661, 71197288, 88173123, 128088705, 24167825, 117828354, 40278816, 112835750, 31124196, 117445756, 39207134, 89654194, 65103644, 65796479, 106937461, 84560859, 52641542, 80241009, 47932891, 72935700, 64553231, 39650228, 12956471, 29384358, 15081699, 129240793, 118231750, 120368927, 101329163, 102533837, 38556908, 56316956, 130105584, 60018532, 43674052, 33204963, 88908264, 57024453 >>,
       << 15544987, 23648417, 62375800, 128354497, 42802832, 88665957, 15238583, 46651206, 93545539, 53430642, 94599178, 17187635, 103841810, 118403047, 64926313, 112759108, 108007865, 115965355, 65655873, 80672745, 55298095, 92237366, 31522381, 3887287, 39047995, 35960132, 68113806, 28871061, 119428358, 114217722, 105069381, 54895832, 8160875, 75464898, 103589062, 43378098, 35112062, 90595496, 42630014, 55194233, 52529918, 108586241, 59317732, 57069281, 53509858, 34990478, 122456058, 7332766, 36012929, 65163430 >>,
       << 97735584, 29386729, 45612761, 85398202, 109860510, 6124158, 41407598, 60080733, 55003974, 29703731, 76840413, 117523992, 22351968, 71942460, 27675805, 104629698, 83924534, 14806311, 127222003, 129957085, 82316265, 81973665, 44249461, 17342988, 81196518, 72446342, 2673605, 127544229, 96935898, 2834368, 107698033, 50893769, 12113513, 104748014, 94587329, 44733168, 122437245, 47338677, 102923797, 102812516, 74208202, 8518098, 87903429, 6605553, 69611890, 28247918, 48599937, 71869924, 26634140, 132233627 >>,
       << 21071231, 112494461, 71900277, 53086639, 115390045, 96344237, 30780751, 38948304, 107546705, 21663301, 122225881, 50181317, 44493460, 55484975, 28939368, 74215849, 98426470, 33380451, 126166516, 1830849, 4841900, 113478668, 2688162, 101350733, 126212337, 70673067, 13760099, 67310099, 53410254, 106212321, 65082169, 5675419, 21064869, 37995659, 40462140, 3254023, 30870780, 84765944, 103671334, 92351196, 33193217, 4533608, 36568726, 100651940, 16595059, 109118454, 105233894, 50715072, 87949650, 53787880 >>,
       << 17608451, 109829814, 99391681, 117658165, 36238606, 115693493, 11397317, 10271291, 9917380, 67714140, 96920348, 94420727, 102325715, 98333119, 55751363, 2705048, 1978608, 99677061, 111434472, 72705468, 81184526, 123342678, 20380634, 12825399, 98767255, 78946302, 106383656, 52495761, 26076367, 111598244, 81294547, 115333704, 41901392, 105330282, 43449866, 57063030, 68767208, 99788647, 3144983, 40554420, 36782333, 61593272, 27201463, 13378718, 35469712, 130092195, 88053635, 77336413, 63270284, 50543809 >>,
       << 39089390, 57651154, 12490623, 29830286, 129773286, 54536785, 75295643, 37387408, 64874074, 38174606, 121824835, 94338884, 71565416, 67993829, 32831540, 51325978, 2310226, 133298867, 66710893, 97651108, 52834161, 127702448, 50028002, 102367912, 73360915, 95909134, 14536356, 60702699, 30072939, 77561671, 130887866, 3340930, 53331228, 103509489, 31154021, 60006771, 49636618, 63995860, 75585152, 14622813, 86277647, 41689344, 44618734, 19296651, 108673515, 84545602, 130971998, 11225238, 12802899, 75280767 >>,
       << 22717117, 27874581, 116075210, 126445619, 65741381, 79646079, 33550279, 11259361, 18969067, 54115926, 82743681, 112483904, 63554061, 70250319, 97043767, 112695916, 76053026, 102083534, 31196194, 7909847, 102999822, 66225408, 33826068, 55278723, 41802776, 99389721, 45347939, 111980994, 20214797, 4900250, 43143346, 92475692, 75874940, 80360192, 54564107, 116961075, 747830, 35989798, 92663562, 28081593, 101339475, 75485324, 106662263, 65595812, 73227680, 67084096, 42012319, 128778592, 87511116, 31640398 >>,
       << 43196359, 61924305, 95142675, 64826670, 69045775, 74464967, 115246442, 99278838, 133245368, 98390898, 10929927, 123645450, 14098750, 57136758, 93852493, 10402470, 50423728, 17083565, 101587614, 1828652, 21755769, 69785033, 100414827, 16304459, 22306580, 26490232, 58733846, 116735757, 130448394, 15255803, 5242805, 118850178, 56932774, 66462542, 22913930, 84042431, 107797455, 70409156, 65389988, 18772414, 100528196, 117335157, 73428512, 56122786, 53607320, 1242658, 39829248, 15781760, 58449055, 133646539 >>,
       << 39490030, 96629112, 123744747, 118141959, 90822876, 36387450, 70126092, 43269935, 82557389, 119392721, 49879577, 75673348, 87271147, 22272851, 18994170, 38949552, 70229592, 91942348, 27442403, 107751834, 82409660, 127774654, 95895184, 49828775, 69709974, 81137003, 33720776, 63365536, 62126724, 28268552, 125654972, 44315629, 124430516, 100228999, 96654246, 133705893, 114406677, 124532798, 18164926, 22043679, 70380884, 95976604, 111321259, 63601811, 1318177, 42639365, 55875235, 24055277, 20179511, 63148560 >>,
       << 8999031, 133319853, 131127517, 751945, 41854524, 94148989, 25189235, 26745249, 93153166, 12596044, 72173099, 61551388, 44430783, 12712374, 8201748, 83882424, 62907057, 79786327, 20998769, 8961986, 47036977, 85408582, 75048659, 118560315, 30337167, 46299404, 84399027, 1896427, 124537878, 25855792, 36853586, 38143010, 110159794, 122340897, 116513491, 57198985, 78446018, 97888091, 41037113, 49294789, 83819096, 102943499, 54125762, 125400686, 34191883, 75311217, 72614071, 86114007, 88498817, 27190916 >>,
       << 10398669, 79542677, 20457708, 13821242, 98067267, 29050282, 37579022, 23934411, 35290889, 75653133, 13733443, 17005934, 106956024, 70104308, 78828361, 86547634, 102818073, 51398211, 44313350, 77263201, 103613224, 114541438, 79479708, 81171554, 37210187, 129742759, 108353915, 98954103, 116948816, 82662979, 89724136, 122034750, 63539590, 28092671, 22561918, 358466, 105141459, 31115834, 132753040, 29050549, 12259214, 124761701, 107824325, 82533661, 19661777, 19237874, 22121549, 63815697, 117388716, 33134 >>,
       << 43397675, 10440451, 120252821, 130169999, 7004714, 18384463, 68679917, 108345165, 59014061, 57096991, 89233613, 63309036, 43901191, 40608690, 67159209, 102006470, 15743269, 32315990, 75181407, 52780673, 50641630, 103873733, 51744941, 94790544, 63683359, 47646170, 41843964, 112561620, 70059735, 42543251, 71227403, 10495780, 118552587, 81252861, 113036992, 28709086, 128226265, 22295753, 126901510, 85063153, 111884560, 37277197, 95475469, 19177565, 112726262, 58685794, 75227139, 59276832, 65779236, 93294709 >>,
       << 105893097, 33626780, 91988480, 16138312, 74880752, 120764029, 58440193, 87522323, 46731994, 23892421, 3395111, 116251133, 49081701, 114806128, 62555645, 103447613, 89931125, 46438200, 97776474, 56918776, 28693060, 82808874, 75134281, 117614301, 133935885, 123561671, 126085093, 25633440, 51332565, 50225060, 24025724, 125250969, 100344997, 133605483, 1432428, 26284674, 59335049, 48451442, 70598873, 26157506, 753570, 78676876, 41659934, 44084020, 12631026, 122277820, 49508547, 122917548, 34059134, 67483781 >>,
       << 123690220, 1744092, 81439883, 36645175, 4500077, 86868145, 36903354, 86124034, 64254706, 53458116, 5894491, 133645671, 93348305, 94524779, 33962179, 36798988, 83922374, 7680877, 130344297, 76796822, 110504906, 4083774, 115854772, 96372289, 124496987, 63190952, 133846156, 81543479, 84857827, 60999369, 65807017, 23323144, 63545170, 100654705, 117432033, 86912487, 100741994, 73227492, 108371512, 13943515, 5126257, 49597995, 3870432, 82264795, 120026234, 95738908, 20561048, 94709340, 98810577, 23744145 >>,
       << 116891993, 114211651, 17669523, 11116532, 56314078, 111946232, 113521775, 16029189, 7522634, 59509188, 85560869, 95373892, 8365183, 42176116, 13082934, 115144087, 73025649, 37242488, 131990173, 114430796, 26062717, 87926734, 82410193, 98979351, 2238007, 44649538, 112376950, 90193094, 113847506, 120751191, 42477264, 120492149, 95201836, 22711457, 121564317, 132374955, 78765336, 96923390, 126741931, 49158124, 69302042, 1902027, 126237834, 89187054, 54112975, 55885406, 112436428, 89620191, 89877717, 8252163 >>,
       << 8718099, 25895959, 110736006, 102179026, 67313639, 19798986, 97838961, 35787268, 11270088, 23163997, 59511989, 5973820, 36980400, 81675383, 26666834, 92437991, 67842475, 54928808, 23215400, 85268483, 100237614, 113027973, 112455624, 126310953, 432769, 41763795, 36743866, 75237007, 47068114, 15799382, 45828977, 62579321, 76258924, 112220197, 93454755, 11555506, 75992639, 124859108, 62143529, 11832897, 15604379, 123213363, 12154988, 24494865, 97918594, 11598781, 24918714, 42614301, 79342612, 84104175 >>,
       << 129622864, 2698765, 102907761, 22727871, 105862445, 1401059, 29195825, 85623611, 50268506, 61787010, 10908536, 117735574, 97210781, 126599171, 33115824, 41309843, 112381620, 91387588, 86210380, 126521336, 120994489, 116042756, 25647136, 100315461, 101446126, 99067510, 17815365, 41672868, 7158543, 50910187, 94746168, 38530763, 23891297, 37441833, 18847668, 75838379, 42351193, 55563827, 30327888, 112108748, 25265855, 36614518, 118590567, 26739479, 23771581, 131436496, 39585149, 34809916, 93624671, 59001888 >>,
       << 35506648, 12403336, 65751340, 47667842, 77671284, 48803337, 46823088, 103665819, 86144415, 70201607, 60354107, 111333615, 84694930, 92212930, 111632970, 22880719, 4929963, 127461895, 112034784, 78547299, 51765186, 20898267, 72202263, 76331139, 28274681, 133379623, 94246006, 58230817, 46563019, 86705723, 108838272, 91538873, 106873738, 38747182, 27843059, 45926778, 93905946, 129988588, 67614227, 74036002, 111381612, 99741459, 106608474, 36097873, 12181265, 68890262, 103805198, 28282626, 34656876, 29293679 >>,
       << 62772047, 35010146, 4220885, 123737924, 15475060, 69394567, 88359849, 84706642, 25021608, 63781582, 18765689, 62712813, 78761749, 43351112, 49966944, 75667851, 50722242, 88356175, 78972473, 120967069, 4543241, 43268043, 94125320, 14040914, 84486312, 48168614, 116679376, 120933402, 1060092, 21307131, 56560392, 63819982, 44924348, 45187329, 86957157, 121195907, 13449648, 25113682, 122560760, 48050555, 41107619, 21843350, 62658369, 73387315, 24986069, 100937795, 2919231, 58922751, 108611848, 82760305 >>,
       << 61263101, 79668254, 77304740, 93214002, 58380480, 98107100, 53597632, 63561767, 111950525, 32693925, 33900011, 97089407, 50092039, 80657059, 45349252, 64767783, 91074223, 53841858, 40288578, 5386018, 130293962, 124686864, 117767025, 31447622, 102431344, 125460617, 120912123, 124404588, 68043121, 14476095, 56503782, 57162555, 103894245, 36153018, 128041288, 77509126, 53787771, 79601320, 3832610, 22015192, 68746904, 22331780, 123796204, 40343535, 118996799, 80108005, 129551730, 93634515, 126546692, 70341559 >>,
       << 26637137, 127707346, 130517043, 76234095, 100911611, 18729977, 17433651, 89040902, 44714248, 105839995, 128837382, 7220926, 130234834, 12133101, 41509991, 106416329, 102787038, 18986566, 107574116, 46453084, 61567486, 53149397, 22191838, 61819038, 113173, 88396950, 19795908, 26898109, 118508179, 23094634, 40437430, 41275542, 10787786, 24775741, 31700023, 115126893, 27289414, 58592599, 12101995, 97191672, 32847443, 20688043, 91900700, 74537577, 113503690, 104100413, 50232033, 663677, 64068039, 21384884 >>,
       << 46266443, 13410159, 63189799, 73796808, 92178915, 52888132, 93788630, 28520176, 122518377, 63391831, 89716075, 50505000, 111581504, 62207767, 94787794, 32580280, 102415665, 123070910, 12861395, 52019290, 17247299, 42729112, 102414071, 125528794, 17921592, 53671462, 103785259, 43904207, 120530377, 38009735, 110030495, 90563359, 98028884, 117129636, 56987832, 80119779, 52861700, 71687725, 9617612, 46555725, 65539768, 89909325, 99378713, 130221484, 78709162, 3609956, 29755270, 118861626, 81674485, 23912234 >>,
       << 103058267, 31562316, 49544134, 48624457, 45614022, 67304275, 110493153, 213612, 81948851, 80419261, 100889380, 53442916, 122753655, 10370954, 86647914, 30879939, 18532770, 67102111, 25228980, 5938855, 28351125, 40525421, 58438483, 12462163, 45578549, 51548537, 87784425, 24142500, 57138006, 20232996, 38247237, 41754071, 51917499, 90633598, 110229666, 64512027, 4674355, 35033443, 128649402, 128180221, 56604567, 24094492, 21950353, 53447665, 91582094, 69437349, 111968790, 14284867, 62400868, 108210216 >>,
       << 11091816, 46477836, 92082168, 98337391, 13610361, 88029193, 115758291, 54287520, 107850689, 108302381, 1640743, 21593455, 42818915, 17279124, 77132540, 68044419, 51538303, 92113445, 61027736, 1555403, 65248523, 87753863, 128838422, 89952040, 53915716, 56701227, 103530141, 7316381, 40661866, 57040011, 34715287, 99598279, 85109767, 15563675, 81018658, 108330495, 107698773, 121897999, 60434208, 67385565, 50039766, 104824519, 63558440, 95566173, 44971462, 113302365, 71809727, 130428794, 48970920, 14988380 >>,
       << 105427317, 24003439, 131631957, 56917057, 71365126, 101953233, 51468716, 116811607, 90559239, 10738641, 20184631, 933716, 45246901, 127265412, 125383124, 94967728, 79208997, 34606236, 26523174, 69108209, 109096881, 82479493, 97660679, 117065399, 61067638, 58369685, 6515411, 62379457, 37811007, 5347831, 16314358, 116487125, 65715873, 61773805, 49271881, 6720752, 119341831, 80440472, 92125389, 49566126, 33866730, 57136827, 45293348, 90596467, 39747835, 102922683, 109947048, 3158189, 72846470, 35867744 >>,
       << 23988490, 39357964, 47900342, 55976877, 2351359, 59964474, 43571443, 39954382, 85360153, 4780174, 79964091, 14989876, 47948542, 98234534, 4914026, 71305655, 99143992, 53179019, 33370113, 23519462, 11280578, 71804498, 12693316, 16918765, 97547754, 19413831, 84949087, 66229777, 57861335, 119818404, 36869104, 46356961, 130439871, 61475863, 92474935, 82844702, 32762641, 123315910, 110806318, 121276518, 112060783, 125126666, 98339688, 110123718, 70270865, 76379051, 61528033, 5454740, 10272507, 43833963 >>,
       << 50035742, 5138845, 19696511, 81786040, 131109692, 97148160, 85606010, 109048746, 118384987, 13572461, 51259494, 68804339, 131569140, 97361415, 10571641, 45335089, 124478963, 85461939, 100564914, 40531871, 56711004, 53786357, 3004259, 24686713, 127555009, 100229374, 34474897, 96850701, 87630141, 99681481, 118504236, 10641221, 112320550, 122453092, 58174698, 129541589, 15626356, 106521201, 25721973, 76624246, 35027571, 133535688, 40695005, 82621946, 68993223, 72364511, 114654641, 106531760, 32715893, 93181615 >>,
       << 107233804, 6554015, 50229157, 76951857, 63474033, 28884898, 102101981, 125557767, 58645850, 36881253, 100243166, 92457664, 104462862, 24926040, 37158689, 67318657, 90119103, 6139411, 81151067, 53508666, 122104096, 24328360, 91027570, 38240309, 36598410, 677940, 54651149, 27801369, 2512414, 104965051, 55609738, 88209607, 17417024, 36878825, 35843284, 62067810, 80407082, 106066662, 130982761, 85209019, 42702631, 13038943, 29705562, 30175470, 2425706, 95161511, 43568260, 29669864, 8552683, 82058877 >>,
       << 38632064, 97732513, 95567532, 81781029, 110994702, 61826611, 78908503, 56474093, 85197744, 79890520, 44124348, 72673252, 52215999, 63834338, 124805400, 74847472, 1686744, 46030066, 45714018, 42901731, 46488499, 110411355, 59644085, 20371382, 62001550, 114669719, 99666213, 66971243, 28271272, 71436092, 93647113, 22818813, 90326645, 52353135, 34318479, 54081453, 4330737, 88677450, 114392652, 76680371, 129885664, 10550656, 84742934, 65302094, 75339864, 132197375, 46345273, 11152419, 27857050, 100396322 >>,
       << 132186826, 71080601, 49552038, 40806582, 39167825, 100778390, 42323961, 60599194, 90530041, 62730696, 3968089, 20924610, 83867651, 78508900, 22378699, 83787448, 47194493, 75818579, 57919082, 55753103, 133657481, 102668530, 3141814, 100849644, 130641774, 38102759, 74684043, 99864971, 65868272, 132832633, 31503392, 50369810, 123638187, 72154472, 17676124, 50791859, 81486500, 127348342, 114040534, 16575085, 13016411, 53116625, 29300452, 28360899, 133161556, 14848878, 76604099, 38835762, 23974297, 116084012 >>,
       << 21356391, 102928171, 104357595, 132121610, 98577647, 131385264, 53836946, 73829193, 54830114, 47247944, 100835218, 29226259, 56127168, 120857548, 80429777, 37430602, 42869611, 103414715, 48744480, 84594167, 14178596, 89152055, 118750190, 92186624, 128881150, 84976274, 102240774, 85390990, 42651051, 67418191, 71890645, 71472067, 52636618, 30212304, 115300623, 54219394, 66415389, 101579759, 62265475, 38424310, 110882423, 124091044, 60324953, 21067861, 124005175, 117217965, 23840642, 53694387, 38709441, 447935 >>,
       << 71493180, 111382769, 44836082, 102399389, 62279909, 88072413, 23121777, 91717922, 121773179, 13196701, 51452825, 77867465, 87658167, 56116418, 130761271, 56139192, 55068702, 25350367, 85418427, 3897816, 83064126, 30090623, 18598824, 81833362, 83204293, 67560003, 134071415, 10805307, 80472677, 76582582, 98267240, 54864887, 126901388, 3064676, 43623487, 81847649, 33546480, 22341731, 76410977, 83952534, 63339163, 91853655, 12209308, 127754618, 49700276, 3049361, 99719124, 80710835, 118583037, 106015880 >>,
       << 87793969, 52256247, 74095884, 68630282, 115888723, 25908259, 114126543, 122568537, 21659959, 61440701, 49534974, 97047484, 117393562, 32120359, 23516421, 63373435, 125780920, 95669392, 123666293, 26814729, 43315309, 17803989, 39323367, 8699029, 120050464, 4145953, 27784045, 77524461, 61898476, 61631831, 32889647, 91760780, 80966708, 59546123, 132837074, 32465073, 106938452, 23740148, 130567715, 61928895, 67137712, 86084467, 14919279, 107869039, 81068419, 112457739, 44460861, 117049328, 123501222, 121987624 >>,
       << 21376399, 32865016, 62037075, 96911408, 129181077, 9374071, 923862, 100476542, 4338261, 91539657, 90848272, 54538931, 116375187, 69762014, 133618385, 63110413, 115718360, 51716183, 9444312, 105098216, 55980819, 128523516, 34900534, 118562174, 96096749, 72120748, 16237925, 96072358, 104233021, 81467062, 86850860, 132769359, 71695192, 95934029, 3183661, 58857308, 64532898, 111099238, 97446332, 8024377, 39320837, 108939482, 53471904, 111173582, 110369352, 97328057, 103181424, 5356154, 48771134, 53610511 >>,
       << 96183728, 124472165, 68660380, 84458947, 87191836, 59061948, 57524179, 105686197, 16650628, 13908045, 19593605, 113691862, 35232032, 101729041, 110760306, 77821046, 101143507, 106249242, 15003358, 96904423, 22676550, 49186033, 55417567, 88118904, 45611831, 19052219, 122537375, 32624124, 106777329, 64772268, 28197129, 35501623, 13035991, 44295297, 86172555, 93108993, 9941447, 61504202, 120687951, 95171493, 65978338, 100999172, 32846895, 101600213, 34896549, 45961908, 39633430, 92502068, 59682874, 44380596 >>,
       << 105679542, 60448464, 93893578, 34617672, 76266699, 36950003, 79782793, 4797564, 102183008, 18793298, 19867441, 70032031, 38712477, 3481673, 29665008, 118134497, 49774794, 75636982, 48684022, 95805034, 39086658, 41159574, 126807823, 96077973, 21246994, 76187341, 85079890, 40901693, 63791651, 95707821, 59037325, 90365939, 39578072, 20728758, 99822175, 108071933, 93292396, 17254103, 19666405, 81530481, 39236254, 115312842, 51570031, 34534994, 85464793, 30590640, 3758727, 114208435, 28408798, 78279855 >>,
       << 40662142, 19912993, 78414664, 1619567, 34818920, 48876968, 96789687, 68262003, 100053576, 116800636, 133696630, 69366132, 54471544, 64018411, 83008294, 120796493, 22872059, 130513763, 46199559, 86416288, 20921437, 78803982, 114435440, 67255871, 42184126, 70241159, 50246095, 50731447, 116153187, 124296662, 65128586, 87023621, 22699019, 116874416, 70496099, 64699989, 23540092, 64961168, 120411234, 50985606, 1910266, 89757409, 127097243, 8690946, 45951720, 30175524, 41514655, 27706466, 30106377, 20144540 >>,
       << 37354880, 81690443, 104423319, 97812755, 105934596, 16051288, 87241075, 26433135, 47848816, 66946493, 61649116, 76424646, 122500856, 85716350, 121641799, 1637561, 112739822, 100160862, 113514097, 109910425, 105104216, 105721346, 70345971, 120545595, 30651479, 99506052, 27183114, 48796241, 89153332, 4407781, 53484586, 84074257, 13266082, 127779071, 44226765, 68104290, 9019126, 36436564, 74260585, 129071307, 71773449, 113629482, 99489949, 72172776, 117120485, 10663234, 130249878, 107094715, 7512810, 59946046 >>,
       << 76061476, 70188999, 33282231, 32842037, 34369411, 107007749, 99245390, 24519519, 92569837, 125672546, 87349865, 115094736, 32895027, 30647266, 92561571, 96285157, 61212149, 23814342, 5399953, 131449821, 81757079, 35670151, 74084918, 37242273, 12262023, 99738596, 25503269, 98426859, 111493643, 123140314, 8545499, 121620181, 121216538, 17790417, 70136507, 40635874, 8169177, 27881323, 30546109, 32741152, 78608288, 102231025, 78016797, 64059746, 62313438, 13189607, 72066013, 118331812, 104879422, 6856217 >>,
       << 42796441, 106034169, 85081383, 9805215, 26363828, 64196211, 15623801, 59310555, 11191907, 63892444, 26494075, 13405117, 72795512, 79104690, 28855998, 80301630, 65394993, 40260078, 76414081, 1288822, 78076270, 57680826, 115580133, 121465546, 14968484, 96634274, 118986362, 59410378, 104340306, 86251983, 26145447, 79045858, 108148063, 85219204, 82465154, 101407271, 61237433, 133175888, 66454, 33789014, 101275362, 54649280, 80712387, 36338537, 66116342, 84708592, 23693707, 44109233, 68087711, 64864697 >>,
       << 69014787, 38085045, 127699537, 86607967, 40216633, 35460310, 116401796, 71429336, 33423167, 45787342, 36948576, 90978487, 75331621, 67519876, 41446973, 84009791, 59061679, 14961257, 131161455, 101550773, 126929305, 24451823, 65441939, 874735, 42843311, 119905715, 130775632, 68390365, 63150290, 66543529, 21895055, 23997481, 8799243, 102064235, 57984060, 90325335, 40888220, 12692698, 124191037, 115699693, 59485073, 45960407, 85615203, 92202066, 72288338, 110401823, 24515629, 25983948, 104527665, 14591037 >>,
       << 102388349, 31112045, 28617427, 41231731, 67347727, 40987922, 42951801, 102867220, 71189018, 63334076, 13813301, 91905095, 40273561, 124493854, 81809287, 28224904, 76639453, 90179178, 20749745, 43455060, 20990005, 25756927, 102864115, 53182430, 105469784, 23055557, 114401458, 21198772, 81889353, 88931424, 21089988, 43712198, 128407037, 69318932, 131688315, 63589030, 87710027, 79890370, 105864049, 55956600, 104656932, 97504923, 36155999, 30698761, 125204141, 35279856, 63348307, 125403646, 114922256, 111996511 >>,
       << 40750934, 49766743, 19459762, 41101815, 44791430, 97537316, 47504159, 111297539, 100020921, 42325110, 60358769, 41341326, 57082519, 75603021, 52820340, 102367223, 55985387, 761353, 102303804, 126162960, 54234848, 7423236, 130014022, 54866566, 47460993, 86676830, 108095033, 18781124, 130860373, 61322699, 102951520, 36803483, 2614510, 109861648, 94534768, 27140582, 27999031, 88859467, 96190181, 34350253, 39566968, 111743202, 50126991, 3178141, 43197411, 57377856, 106155481, 51325709, 43712718, 74902641 >>,
       << 75158204, 99189177, 26770013, 107035231, 28854107, 82886941, 67503923, 59069644, 114944524, 36770694, 14339094, 9989411, 32633405, 21530932, 43685593, 97019170, 64381921, 126365206, 96806412, 79583095, 63065119, 127781365, 130343287, 127065013, 6174008, 104854639, 88505617, 52353371, 92315082, 128813008, 121988794, 94823302, 65369583, 33533779, 37600104, 132463394, 81430545, 78666938, 50334193, 7961369, 13615035, 7531569, 85849506, 45995332, 37050296, 72195140, 49586582, 58804057, 123964311, 38149420 >>,
       << 14902300, 63329409, 18023391, 118225650, 100639970, 9930603, 43559761, 131154712, 104051341, 98307643, 55536259, 110637109, 20370571, 117299666, 20188973, 79162732, 40111723, 77052803, 26842781, 75408403, 11811852, 58822422, 32913766, 44002223, 76870944, 73361416, 102379559, 88676416, 34993129, 74715577, 71273301, 109697490, 39113647, 92552536, 2932900, 18853237, 103629603, 103335018, 9127329, 116866774, 105481807, 93851922, 95482852, 99194718, 42139163, 128473227, 114545882, 48483417, 121480934, 103710439 >>,
       << 59839681, 100297310, 118727018, 28831688, 24714856, 43119744, 62857705, 30558998, 61848024, 48614170, 44696127, 26707338, 90955166, 130384290, 94497375, 34765857, 34273540, 81016087, 100347921, 125182358, 3105571, 18826712, 15997469, 86200025, 55133817, 57355386, 53191556, 108188187, 65277802, 107118766, 6446622, 111625454, 70920296, 8091497, 122538396, 132827645, 68754597, 50126880, 2174497, 75928927, 58680918, 133634480, 4306243, 128820599, 67674129, 117182932, 107143092, 43898593, 106050460, 72317772 >>,
       << 66036393, 37936160, 77150426, 44795511, 85144216, 9007281, 98574037, 10140494, 75874195, 12367293, 130758606, 74932501, 104768776, 15077338, 71371946, 21236454, 107185066, 68920851, 113588374, 114284509, 11774955, 77030941, 123815435, 62873864, 81877039, 87264876, 133271456, 25620480, 100919296, 9809109, 102960470, 91798637, 57840690, 109757321, 37160179, 62507231, 60570928, 119367312, 118184156, 133459354, 99178390, 20428651, 87301075, 44349489, 9801355, 24383847, 86951594, 77205227, 45608488, 60941167 >>,
       << 70828569, 104839200, 92957341, 99248454, 110086524, 127306010, 58035365, 119372842, 2883470, 53883863, 77140007, 39435019, 852813, 83710220, 111162161, 52337867, 2532910, 1145938, 30229850, 43269689, 57331055, 20199086, 34742654, 114833283, 29915787, 78433683, 90534999, 103049531, 43838097, 71452723, 61438610, 87726411, 89308727, 26888045, 103337963, 110263185, 77099818, 124199253, 47599687, 119889117, 118153441, 95952852, 116399401, 77424312, 20482267, 25346665, 103749230, 19902315, 27668202, 41403708 >>,
       << 24372157, 13542098, 3519791, 71594695, 80788531, 126767936, 113373489, 5295236, 104617782, 17089076, 72487807, 46777508, 128132376, 9296843, 43951077, 116844055, 42323714, 124616530, 30884016, 88337685, 28025635, 27071907, 40658510, 21916266, 56946385, 133010255, 36383465, 31269891, 125668362, 123463970, 29156896, 103662436, 47693567, 3663666, 18429726, 117794523, 120645581, 126753428, 59007608, 16523557, 111958689, 127240244, 50346941, 3412336, 59586290, 116438279, 99850255, 114647187, 99309410, 27995717 >>,
       << 51058647, 6605430, 59970143, 58860762, 53576791, 26660705, 27599495, 103479685, 51070501, 79217610, 109320261, 16730148, 12462359, 130089698, 23501092, 68008569, 122578797, 77618586, 97243205, 69322944, 16334801, 21861785, 101549986, 28137132, 16154220, 126258048, 65647021, 99407286, 81181379, 48102338, 100620693, 133594630, 42530857, 55717519, 25633055, 28229673, 132224877, 12185758, 107346159, 68036333, 48299387, 64153249, 34263710, 68281290, 15031359, 126821907, 61331294, 2167007, 973829, 51006646 >>,
       << 107832089, 56373318, 53728476, 129059573, 115090772, 13430634, 47604491, 48371054, 126933971, 41605042, 112277778, 8765169, 58270476, 126961997, 113790884, 87510205, 40358524, 30784021, 134178343, 94115341, 11334884, 87299591, 86380107, 108739099, 52302797, 117566920, 63265064, 2127354, 127682551, 129417359, 36871774, 97929161, 86887136, 120437754, 43388690, 6089390, 18889241, 113738090, 33419962, 23804639, 75776544, 1244728, 17172930, 69608269, 20905527, 18820058, 93290744, 63057193, 102312542, 5233258 >>,
       << 8211636, 80021211, 107693657, 28162314, 116278865, 99300880, 88711501, 39337146, 49889271, 82886833, 55683763, 110494839, 21136969, 56269326, 23141819, 23439445, 125666929, 69605270, 129560398, 20317946, 99585080, 108638189, 108759265, 89747074, 24375911, 48998598, 117987772, 124145290, 14682288, 105569864, 21793431, 4023864, 66780754, 27390737, 41079324, 54177562, 83928021, 50087924, 122001344, 112934150, 35592037, 83471826, 43093653, 3822276, 105128572, 3466848, 44504189, 3824787, 119295461, 63149753 >>,
       << 4593302, 98643431, 117041643, 19373095, 122618220, 54714435, 6241050, 72407098, 50605018, 102341325, 80330313, 96975357, 70491768, 22782148, 21229564, 13437241, 2005006, 46797212, 120418628, 29890245, 12364660, 56355725, 132632819, 8902088, 15087493, 130020793, 63845946, 62335184, 131985524, 55710670, 114909222, 120546766, 72038305, 59111612, 18039586, 115013274, 80969675, 108639200, 85477263, 96855, 41799545, 63920316, 63013475, 120735421, 121182898, 34475383, 17206526, 43335744, 88097063, 72475706 >>,
       << 49067682, 128433662, 82357282, 89715417, 96142211, 12938359, 64127867, 66142725, 100491351, 111546924, 114349272, 76670472, 26345208, 16889016, 29435441, 69086432, 17422482, 108105330, 126471906, 19138848, 30273055, 88477659, 11031218, 99748634, 12722389, 96270090, 54202290, 37889634, 119040108, 82545856, 14123491, 33524742, 30363191, 33644452, 24780183, 97983004, 88499057, 40414051, 44107402, 95356389, 130722261, 62028610, 89705272, 79293774, 69782068, 69377728, 77466057, 132559189, 118592481, 35799340 >>,
       << 101991194, 120733159, 17677427, 44015900, 56642693, 50300871, 88745007, 19491232, 77761531, 98839320, 125443164, 114185520, 4593643, 100386262, 121603211, 107343498, 51677853, 84809528, 6444924, 106595029, 26561171, 131470374, 24450775, 1922230, 19187023, 85178684, 4578708, 112122683, 106672521, 31920912, 21727864, 53252708, 43289563, 1572026, 76784181, 64528712, 64940557, 115115921, 46157714, 25199145, 84384419, 116705782, 109654472, 130295855, 77470671, 54446341, 60680386, 133237775, 28834825, 60826614 >>,
       << 83391160, 35273041, 73266696, 59037412, 15813415, 99986896, 37487708, 87974419, 103147807, 69053800, 124001830, 45278396, 45265544, 133772890, 119792925, 25007366, 34263695, 45765962, 108312162, 117033981, 65411700, 103617131, 73672216, 61245697, 89019649, 12952468, 89659144, 114919149, 45952797, 102444274, 69668788, 35280921, 8471523, 104952125, 49046143, 57245809, 86207066, 3411007, 129487029, 72923013, 16942058, 12694785, 30484208, 130874080, 61395676, 111411177, 14916551, 16143405, 73882130, 95656351 >>,
       << 39689985, 16951598, 117213246, 46657336, 41208923, 60742222, 58540955, 74262472, 132112079, 126104082, 11135674, 129693590, 116362406, 130416650, 67742871, 24509818, 53359344, 110062109, 126332398, 118866477, 134022413, 68572457, 26156080, 19019782, 112744611, 91345145, 29777154, 104141060, 2244018, 26665991, 98436935, 99937956, 47504552, 70541440, 80656304, 104681465, 20370384, 75548877, 115417340, 71210764, 70470377, 6307591, 107409077, 71559021, 48674884, 72404720, 30926924, 93106132, 127126132, 133838542 >>,
       << 71252175, 22381271, 50260797, 21307037, 13440304, 91321326, 22231222, 85215820, 85135998, 115285084, 82971287, 30367766, 113177594, 124909577, 100811496, 96111431, 20407950, 72587841, 126458867, 128195439, 81827925, 56910429, 115198431, 27138304, 37369085, 6564881, 128722419, 130076624, 127359082, 53804242, 39795077, 52314365, 120924350, 70027906, 130460821, 56541115, 119956355, 63960898, 62814453, 43207543, 18269700, 96844485, 125915466, 40264407, 47461, 10048946, 33732839, 95071927, 74592492, 89673571 >>,
       << 41822962, 28018594, 123889962, 98443400, 82291206, 79723307, 128751812, 8967731, 7948672, 101357143, 55079671, 18831186, 19299377, 64549616, 110386196, 21508787, 102621925, 130472383, 108312132, 131057583, 127629061, 131311464, 32542841, 52511111, 105537124, 21400078, 86716010, 56238473, 52479086, 79378566, 25953856, 33362943, 111981746, 47030876, 9466596, 30374151, 129299633, 127379346, 37073335, 18849582, 119807911, 53880436, 16572053, 97439246, 99274811, 78642156, 126747317, 90236903, 20380452, 27626181 >>,
       << 59509638, 19113736, 90226266, 36972997, 102083936, 43952205, 1445395, 85464025, 15742667, 69876471, 41763267, 70362430, 13772377, 103570187, 84361980, 80322129, 63231224, 31162829, 88640264, 58823870, 40107238, 110359234, 16759028, 72646617, 99711924, 81877605, 60984164, 20626125, 9449294, 118142051, 131398210, 101233755, 122206068, 96637679, 45818870, 117472117, 36521017, 127438109, 132601667, 5499119, 51204292, 112471428, 119603665, 34286237, 15144802, 84140870, 62616017, 57164749, 78514495, 22609782 >>,
       << 117607253, 95262464, 92803092, 116166267, 106630027, 65404850, 101798715, 39071710, 30149786, 70174304, 13831159, 11888060, 133896317, 98215071, 80975711, 128813375, 80402724, 116109752, 48660554, 32385743, 116683696, 114080426, 89242791, 66374934, 112301196, 94167029, 129284477, 58046122, 56596142, 7603772, 85638951, 14118375, 116120781, 103340347, 37608285, 113054947, 97180663, 98306786, 37026058, 121430987, 33778683, 85934970, 68158923, 44134771, 56323846, 89520336, 112245782, 33722078, 131947651, 47870268 >>,
       << 11152602, 1734913, 13573570, 95710073, 108178346, 65169251, 32580577, 78622613, 66434565, 29714212, 79334010, 58219225, 89339143, 35668920, 13954006, 133855680, 104813566, 110898850, 95097164, 65479724, 75251955, 81421925, 112395539, 75916242, 50442020, 81420209, 69654542, 116822232, 124184025, 89597988, 51349988, 5650731, 80753748, 14468359, 79234500, 112502057, 106515184, 86258750, 128053306, 13230744, 77259150, 12739083, 15767007, 129752250, 102546461, 32026271, 48412445, 77862664, 90276104, 95201344 >>,
       << 121304587, 81041439, 56616973, 109425504, 52847572, 96407117, 99899567, 5350579, 46614414, 86850744, 105781870, 59088694, 114384781, 61839874, 76953052, 115885098, 70164383, 5003131, 126191105, 53511633, 109140577, 108074878, 84304617, 99909843, 104371835, 57954859, 89800835, 121880610, 3441419, 28996335, 76092056, 24258202, 3240609, 84627132, 126963227, 44152565, 13261275, 39228733, 123570194, 55317019, 107628558, 3808371, 97852423, 61286924, 114008575, 119580566, 34026103, 48128991, 109839551, 91672278 >>,
       << 46177572, 47295434, 130671636, 129599107, 33380094, 37128982, 59862044, 105187749, 6415488, 43555317, 61499176, 93832207, 133006505, 85202397, 35322575, 103161240, 106520695, 21554308, 28102644, 74957616, 103456219, 115894713, 73454371, 87011596, 43202156, 99415711, 53864375, 101108785, 46780131, 104819780, 109450457, 23093235, 113376378, 67086906, 114977128, 11927856, 44796947, 47218427, 82732173, 72240647, 99302237, 108066165, 112237648, 129641390, 30544052, 42484493, 111223964, 41048501, 13596009, 122697996 >>,
       << 96897236, 12137642, 85825759, 54501157, 41999994, 83456546, 66732073, 85828882, 24990286, 101544365, 51364639, 27131995, 35524800, 114887153, 94945095, 65154738, 47055917, 45231541, 108165731, 58756373, 120229587, 48514771, 101303628, 21369793, 128756185, 22621484, 43320084, 2137730, 14962673, 25473149, 78094160, 41678306, 121981141, 67930179, 93983051, 86209085, 75227062, 39755786, 101572027, 75151359, 72243277, 23878421, 53414794, 83009769, 93366695, 10191870, 26658273, 12531060, 12152370, 95518135 >>,
       << 80258091, 122768593, 117699961, 89011879, 54309470, 114381530, 35348929, 19564306, 96084874, 45656032, 71514930, 47486185, 53251788, 17855290, 123649199, 51706059, 13908449, 113415253, 128322208, 98822144, 109330148, 117637067, 119111670, 107171142, 39448235, 82331842, 76518436, 130291225, 11034254, 43464571, 134142417, 30175481, 59396183, 110881833, 5472438, 33004621, 73549599, 20805333, 89593195, 133234889, 36747243, 3537870, 66369717, 30127665, 111836648, 93291937, 131971231, 29390348, 32930552, 117458759 >>,
       << 30310745, 59103568, 86959001, 108921085, 28986747, 19512130, 1666763, 39834900, 32706202, 129465143, 2788232, 115095908, 82170846, 64863842, 112465157, 58914857, 55636716, 74668321, 73984321, 133999301, 76247172, 25801896, 55341132, 24972287, 113803852, 69601473, 77966489, 53635663, 84188755, 77236512, 119266428, 121110385, 131416749, 51956191, 100232830, 35096899, 94857832, 106944326, 131790560, 48851081, 107834023, 107605751, 35374067, 57890079, 49691228, 48924311, 120803049, 124219289, 125751565, 31501680 >>,
       << 42970439, 72527114, 47925684, 10340193, 128592809, 93039603, 18051318, 43172816, 115419823, 111058175, 132373011, 94279205, 33137733, 106777863, 72246104, 77706490, 17282502, 12968305, 131669070, 123142007, 105256039, 132272137, 68109300, 95073653, 63852434, 71854791, 42075215, 14067040, 108347739, 110903270, 81079800, 30578076, 96651024, 46753777, 96309881, 94240237, 86565865, 131062673, 74366395, 110203160, 132214808, 30059912, 62449688, 36122478, 77075758, 112288351, 7140578, 61772215, 83054727, 58770044 >>,
       << 66724054, 79331123, 58543659, 8678217, 127931507, 133652483, 22997024, 2968249, 75156388, 60192392, 75027178, 87278778, 7723661, 120237828, 46654498, 63971718, 116444233, 94799191, 19848134, 8559981, 91537431, 47568410, 8779551, 128142261, 96484936, 37056223, 76471037, 33824487, 127151315, 120330077, 97678361, 3701318, 95779406, 80227105, 65875378, 57825027, 94518515, 102591359, 126533515, 17898844, 132366408, 53183240, 28884210, 88825403, 60681408, 41584044, 72262247, 93577401, 90552355, 40890916 >>,
       << 44363421, 31214258, 76484960, 107161627, 117570528, 68176556, 127005912, 54645674, 19358634, 102851078, 72425578, 131557338, 91445454, 78768688, 42205917, 115794207, 909370, 130310451, 81818380, 7109636, 95578284, 101262755, 48096857, 78845892, 16063631, 103967859, 131178213, 9531256, 82389614, 8540104, 71104791, 55527409, 98029990, 21636866, 98322047, 26121315, 33393307, 131504107, 80735381, 103848846, 101847230, 132820546, 24070716, 112171045, 24325365, 3957752, 87161933, 124664939, 66434426, 97800045 >>,
       << 16039031, 44532115, 11959568, 12638132, 126989719, 54164273, 77041363, 94077044, 127376635, 91986530, 52002811, 108033721, 54703681, 51175972, 93471246, 63673905, 18590430, 113718056, 46076320, 24560448, 12866554, 41767937, 47668359, 23811694, 94927226, 57762060, 117986044, 33824764, 67066159, 12178177, 24772080, 34964465, 53878721, 26925055, 30419133, 47137357, 132289827, 86869105, 84960805, 10947925, 45596469, 60629837, 100906953, 12620209, 70312275, 34597012, 2738143, 118017817, 81357341, 8173978 >>,
       << 131803167, 74776506, 7938468, 91631796, 50082940, 12816494, 22617447, 232048, 129332169, 132221738, 71017414, 1688255, 625592, 43870361, 51640743, 41106043, 3711597, 107379305, 121486511, 76246226, 75613530, 50309638, 115341162, 9313264, 128273453, 23138191, 25297638, 85427135, 83332082, 66867454, 24398998, 71835206, 29309642, 130966219, 46338397, 13014526, 117050890, 91695012, 122489062, 20759612, 80492828, 50220019, 77038964, 23746912, 119646617, 59149428, 94807049, 113544581, 118067569, 103613886 >>,
       << 23822574, 68092509, 19978275, 109301746, 109923708, 59741176, 4072389, 83494515, 5204195, 125532907, 72154087, 119216687, 128584793, 106521560, 126259155, 16144121, 108341198, 125392639, 41831014, 125497939, 39115199, 14465305, 46849237, 91675010, 24215127, 79202730, 69590395, 22466075, 120826906, 13384402, 66793593, 25925455, 81000851, 20837653, 133860964, 82301184, 123480194, 45284617, 125871836, 61024383, 124635450, 88380763, 73548688, 111638296, 52190005, 105235107, 60120895, 126703025, 15620477, 89752076 >>,
       << 74418609, 8786373, 45411755, 33047380, 49082552, 18975887, 32138616, 128900969, 109734468, 65869786, 25278591, 106576118, 54262173, 5582167, 48093085, 7868404, 123025378, 131848198, 123631257, 64481336, 108838143, 113226258, 122093580, 88538069, 94977488, 101282244, 112617022, 79340557, 13258076, 113786321, 69772254, 12207568, 89055153, 87886323, 43023903, 122388720, 70778039, 75564137, 77186842, 94248481, 71393856, 70017740, 52906603, 101592548, 73334032, 86328642, 26968648, 37924770, 42992142, 18183236 >>,
       << 60116733, 102478270, 26580682, 39320311, 126734724, 84065834, 57219594, 54255917, 58403344, 50609069, 11058049, 65829144, 3198965, 65933037, 14001392, 43152945, 75330101, 64975404, 81827614, 52185014, 41056878, 66788701, 133182554, 105543447, 103447075, 38546517, 103460760, 91811958, 93804992, 7397482, 70806579, 111569453, 5587825, 25243522, 127074641, 11970543, 41220925, 119734633, 78848869, 100374913, 120833045, 76675220, 72851642, 23267818, 86024494, 42097877, 99221402, 6436549, 71711476, 3753144 >>,
       << 6336089, 129757431, 40660713, 51660590, 25265012, 47213180, 129411003, 72177418, 7037740, 110561333, 110782541, 91827121, 117266727, 58224195, 99125172, 68232914, 70328000, 113980486, 23929694, 68282676, 49771144, 91420175, 93842769, 6002311, 122226998, 28788785, 13240677, 61368875, 127502050, 24924955, 119770005, 29738238, 95618129, 42991351, 9792992, 95836098, 27327834, 66474713, 27747762, 76657828, 85955870, 82277755, 2092818, 6071188, 123760333, 51202550, 27652856, 120838998, 92528295, 15613685 >>,
       << 124059088, 38982422, 636028, 121385949, 32264248, 88529233, 109204609, 122842102, 111575739, 44392606, 132124195, 23764288, 132484372, 52333608, 110940644, 30651547, 49899973, 123155998, 112445909, 53949988, 6007154, 20928435, 19014547, 80363084, 33040802, 83451717, 89728954, 34653043, 118372625, 123772606, 56752704, 91321167, 76576546, 95317729, 115929673, 121076176, 84045854, 41572498, 27498028, 126201277, 117934573, 87689321, 98869283, 122639594, 36589757, 54922351, 92647982, 1372698, 55819457, 110535670 >>,
       << 55517801, 50617768, 37324162, 113096453, 120940347, 25433791, 109618925, 104585855, 65527308, 34014192, 80548035, 1399851, 84092385, 92948882, 53078880, 5610213, 93415775, 102961990, 60280967, 17299087, 88981391, 92543039, 29927143, 9465618, 85576828, 15351874, 15472405, 21330395, 121093534, 106191730, 65570300, 8925521, 24609969, 72066827, 43940007, 22463582, 126634845, 99333593, 34426734, 128220504, 91389602, 95968812, 124905610, 93283902, 53446108, 38226119, 71975610, 38445186, 38212434, 114824352 >>,
       << 76518645, 35097827, 14561556, 102138253, 16025691, 53003418, 110444745, 118863170, 118652036, 27128906, 127534903, 11610244, 74457282, 113609172, 66836028, 26949332, 17061090, 69555056, 133621595, 4790926, 62942341, 64266104, 14675889, 14952744, 30688223, 5104468, 111816082, 52085048, 24760262, 11221679, 102346575, 93095669, 108234399, 9046325, 32447383, 58512034, 82586963, 49781610, 58801935, 99099167, 19160749, 59327432, 80128181, 103230420, 5509893, 88969812, 125307763, 67594636, 102916835, 130796196 >>,
       << 25363046, 103152929, 28243618, 97295794, 42670676, 5873085, 76343225, 1907386, 127317516, 20496460, 45814884, 115358466, 127562461, 33662096, 123727240, 23559104, 46991937, 62013345, 26930692, 121005712, 86454359, 7573659, 52520989, 51007346, 20548400, 127080202, 39165484, 67859758, 8542875, 30230610, 24691117, 84183188, 26083751, 45082208, 88316904, 96795286, 58904348, 3397006, 116948914, 59127002, 9312412, 113202225, 32987512, 80753445, 70941666, 38628739, 74739562, 21622207, 19241916, 73433653 >>,
       << 129409584, 42621317, 7611907, 14947264, 91907311, 8741781, 55019090, 69531133, 71709011, 2343684, 83025237, 96701519, 22805637, 97184286, 125198372, 43171972, 49710508, 5157990, 19258428, 120999914, 13930806, 91847420, 31361578, 792100, 51165595, 459152, 75525880, 7840669, 109213779, 52013029, 103172554, 76095382, 16058089, 115024997, 30134305, 102297564, 84327199, 4723822, 75650313, 73226848, 9921913, 2656619, 87088867, 110595193, 122247044, 63945115, 125790322, 76704340, 86542269, 51815391 >>,
       << 37912273, 92021014, 82684709, 51911006, 60353847, 122170489, 100404176, 31899399, 91654759, 65842162, 82222921, 33560111, 46324745, 131550969, 132604092, 85456101, 61066956, 64307616, 123403338, 120604930, 20553823, 60964805, 72001727, 118037017, 48336521, 30043274, 19382033, 38502168, 85509203, 98110278, 23401284, 129256998, 129838204, 52137114, 134102365, 34522269, 118371646, 21517336, 49402605, 99321867, 2810133, 57946703, 108105733, 40246214, 19325175, 5711620, 61731037, 55079123, 95386636, 118085431 >>,
       << 72678701, 114311044, 30465492, 132538579, 53986524, 16780466, 112761057, 84087394, 47370989, 27930832, 126417140, 54464528, 56524541, 118597709, 56066184, 61818207, 98441897, 60708263, 59578294, 127825493, 52135917, 62212219, 48796232, 45338927, 43756453, 89304909, 53537178, 17866349, 97080717, 71126909, 27637454, 33018516, 29119785, 95642192, 25630898, 76287557, 26119029, 127239077, 117253430, 97885901, 88493234, 105243580, 83064164, 48776722, 120843512, 62193264, 73578898, 115754560, 102539200, 106310950 >>,
       << 54788762, 50307037, 86436223, 41191284, 28657321, 52724691, 18969191, 63113531, 14582780, 72857235, 87541827, 60709337, 40308304, 121423565, 111788320, 128276290, 103962053, 116784310, 83697650, 55313521, 6829764, 26764323, 29149156, 45323065, 74046990, 119443665, 21034514, 88536920, 51578597, 125778382, 69457789, 57953043, 24201500, 126594064, 59455815, 3199132, 93143024, 27709690, 51804106, 76154186, 89522357, 23131189, 36684386, 132020926, 100122626, 91352634, 75613436, 103245649, 20918595, 86065526 >>,
       << 53938948, 77184473, 104939326, 107486496, 26549575, 20224364, 55202373, 42478661, 62891711, 32977091, 116505027, 99115186, 17522806, 102357159, 124990590, 65321753, 42441605, 81920869, 125227853, 102460823, 82184856, 71214330, 98692660, 84300224, 117563532, 4738104, 90756606, 13027791, 105624286, 8772342, 11509178, 2881127, 1163490, 123503366, 115729137, 116697448, 7080348, 44494335, 114434159, 12072478, 42049592, 125032221, 121038051, 47874974, 27247147, 99802196, 20213583, 128574756, 28589967, 41280251 >>,
       << 112833960, 8861468, 48712990, 83648740, 122036879, 42345697, 78309134, 121401967, 111166438, 59943922, 63765142, 45448910, 94436025, 23517361, 38888385, 40700248, 13623030, 107687705, 75415271, 21449657, 120905618, 118186941, 20403362, 21911949, 55725304, 15896810, 71444791, 122169202, 82985330, 54986304, 21244038, 75385275, 74131297, 84380335, 63024306, 93933969, 131976697, 37746670, 92605361, 113815922, 121286066, 33472531, 131013243, 15214980, 89103000, 126889684, 19682531, 122028721, 59713989, 13028371 >>,
       << 101424782, 5285272, 18199754, 118142712, 51130128, 63459898, 50918146, 64005756, 22878479, 102963532, 2678196, 78675126, 92358103, 132576654, 109783619, 48638387, 124948944, 59181497, 78502768, 76760494, 24405301, 60040074, 119989044, 2665116, 130231019, 66003853, 127051048, 90162332, 76072327, 46147922, 118863738, 45604049, 132582325, 11409917, 118982768, 49656286, 9246258, 23788142, 18111796, 83756036, 40279349, 90915486, 52830211, 123045982, 20063671, 14894384, 133264352, 125497451, 106161865, 128904638 >>,
       << 89778757, 26458585, 129060426, 85123938, 43043435, 39238480, 95483589, 106405380, 127340649, 105572612, 11149828, 47608618, 80908131, 132012653, 107282601, 66404207, 2141515, 83464930, 119594397, 79231776, 56067933, 133103963, 22690870, 49018458, 114253220, 33918937, 25772910, 68910441, 37613959, 131806693, 69851147, 121370389, 122933380, 3146646, 65714214, 42757412, 121576653, 22398512, 6980807, 87161679, 32051720, 94021516, 41156003, 35314481, 60254507, 133701517, 58109521, 45300876, 5429877, 36619501 >>,
       << 100662976, 133559617, 101973940, 88139894, 61483466, 88504582, 10770192, 44683613, 73990759, 4210921, 17535526, 117043230, 131298312, 124358785, 83774633, 1433160, 98601881, 76994349, 2578612, 40629111, 51092812, 26795548, 121404608, 63098568, 51005009, 52129781, 4829577, 93320013, 90181417, 36276862, 93530441, 50350701, 45048155, 49230243, 107796435, 68797888, 114571830, 133365856, 105242852, 56977334, 54652792, 94929584, 45919735, 17762391, 126554735, 46471424, 96518264, 35109738, 74139544, 25891060 >>,
       << 65609708, 37801233, 35792181, 11181158, 122588748, 60381095, 123316042, 90168533, 11381032, 108109047, 89418882, 122586647, 42763636, 115625772, 68288809, 120234810, 15237104, 3088008, 108817705, 17250444, 108209909, 102282412, 14367955, 32609677, 9987762, 23770928, 50115328, 8718672, 20670352, 76760300, 107569745, 31802263, 104539058, 11728894, 115922563, 10121566, 1294562, 97053794, 1804855, 98851829, 108311860, 45786338, 116790843, 121992026, 82874168, 9446616, 20970686, 78216040, 84037259, 129606588 >>,
       << 116950533, 130071709, 61842562, 84691777, 117225956, 44412731, 105512801, 89246477, 14204629, 82217107, 16371663, 7538528, 94509095, 18618004, 26779296, 123212165, 100135025, 124361037, 10892520, 24907429, 12308286, 96402473, 127693662, 12292455, 515548, 58112164, 106245777, 92019808, 31282897, 28215122, 6710702, 96231316, 10658492, 51928966, 43004024, 83946711, 71045937, 25855513, 63893558, 109729828, 26481124, 95058044, 132597663, 66478091, 81263173, 94794489, 24973205, 62976361, 38663227, 98188957 >>,
       << 90752569, 79431668, 116099438, 115547898, 8223029, 59393536, 24820595, 68126824, 847369, 10678134, 23602309, 130753616, 26537596, 35334373, 19312960, 117866874, 72745798, 77233454, 130556767, 25413534, 93947983, 16644381, 94337358, 102229150, 10170987, 25259577, 25105164, 113899352, 43138308, 101507020, 133141357, 30563463, 21800123, 52971438, 85268109, 112211443, 79498261, 39825016, 80739206, 55335551, 68002009, 85979202, 38306144, 29294123, 57246989, 33681911, 110658298, 46272775, 98709509, 32315695 >>,
       << 71209329, 937251, 87891427, 119528412, 129941422, 91741981, 33778330, 37775463, 101240042, 21644510, 8677624, 8270439, 8426588, 66293229, 46200862, 121157465, 98370076, 8107284, 83194239, 101421642, 109750307, 57726344, 10730923, 90467449, 102600568, 120613376, 96114618, 59851981, 1610470, 131153223, 99894053, 90530008, 11842256, 42734662, 78938629, 103533690, 122988184, 122738980, 48516995, 93694171, 91413119, 81269754, 91025865, 128754543, 8842104, 76396882, 35223738, 97596276, 112706005, 42824042 >>,
       << 60503600, 48065049, 99615410, 108845929, 64484747, 49720070, 67067918, 40298493, 102463488, 65644207, 42073858, 73271725, 134096586, 99988094, 25539627, 30616624, 78816559, 22891228, 5731027, 92726279, 47364760, 54993351, 62403836, 118108198, 61960301, 43535905, 123942826, 106871087, 113612837, 126864359, 130496684, 54122182, 62226540, 116592568, 120673759, 62329716, 60690090, 20493013, 19070042, 99033784, 100737395, 51749546, 56317377, 127457732, 3285625, 117220631, 18714249, 105799178, 42509908, 51198338 >>,
       << 132843624, 116803045, 84851513, 20049971, 53609010, 49084772, 1872359, 58301666, 106216568, 109710214, 88821543, 121515672, 23190132, 20272064, 79582678, 126975733, 24683931, 29124413, 12730042, 2199743, 52518275, 63389452, 20119214, 36358251, 45273682, 26542426, 2909930, 66749487, 52644474, 21248859, 40738050, 111370939, 128204204, 114597063, 73729641, 37268182, 30566650, 25494128, 65301591, 81446672, 97137289, 66993019, 58096981, 58399149, 127148599, 114299426, 21450764, 65409954, 130070388, 89360714 >>,
       << 8020907, 47428438, 129042214, 14228623, 8979981, 127902826, 43390242, 94760951, 63981624, 81579904, 38832122, 18988828, 31561623, 69627150, 126612681, 66334640, 107860325, 29045233, 55880935, 65834718, 1740480, 128427134, 41340090, 84759650, 21287253, 45443506, 84618779, 41689626, 91812652, 83011005, 57579060, 82091154, 16354079, 80411964, 17371542, 71086637, 37835591, 45781296, 97275204, 50110818, 108330387, 92410851, 115977208, 17197789, 49602515, 75876997, 130249004, 63555187, 8472493, 2376967 >>,
       << 60005821, 49661702, 55968870, 33032305, 28112706, 126778945, 43781905, 92379616, 31331564, 122157744, 117020917, 121138757, 41948011, 85076782, 122908261, 121042912, 130530481, 63912828, 105603332, 37652279, 74490268, 45735675, 77473129, 106544450, 44434217, 93728205, 26088942, 121045038, 17063481, 129583713, 43195660, 104903921, 84917104, 76809444, 130343624, 122323468, 30726021, 95040228, 79568937, 81790554, 31812000, 109162216, 110012498, 33433510, 65577160, 75604580, 63049118, 119528544, 2603460, 42071895 >>,
       << 68579952, 118209333, 12828887, 51558846, 100689109, 19911932, 83699114, 43171794, 10912930, 71032794, 65892915, 62101101, 80879572, 120853740, 119575992, 127123553, 128617190, 97687263, 35702898, 8982581, 60328845, 52288069, 104345320, 25928411, 106204015, 103340361, 37072327, 95550623, 19204323, 48826054, 113786136, 104389083, 7921698, 63585237, 33096161, 29975290, 84969193, 409797, 43917970, 47804163, 110707718, 83302571, 64767183, 75413975, 19611920, 105184322, 36608900, 128401755, 42954460, 65055025 >>,
       << 132242656, 42166952, 81170992, 118542909, 71982332, 26851375, 110613720, 108814149, 86683389, 25259112, 128543766, 123978145, 80206794, 81212652, 16154770, 39677387, 98437955, 8128621, 98716451, 118752046, 26164817, 70263274, 107219630, 67663082, 37910637, 33316392, 106127206, 50467061, 56772934, 94039126, 109868824, 114447592, 1464854, 40020641, 35029200, 27412632, 19335352, 39742322, 3393520, 3868320, 87460964, 86434643, 102324056, 56562468, 10564233, 49476902, 62403120, 104125697, 122112177, 133275486 >>,
       << 19812515, 59953058, 84005516, 51273783, 74526321, 21069286, 79704535, 59611364, 101798988, 42156045, 14461271, 125748989, 36715535, 61195665, 37037308, 26545674, 94797542, 81408752, 60845390, 38220213, 21864214, 78716058, 17251767, 43325981, 128326316, 2275825, 16631582, 7036160, 116465782, 43827193, 74165377, 64035481, 49502450, 19025744, 42314652, 111642888, 96704040, 50335546, 73836812, 3417889, 84408232, 58285339, 86748718, 43471005, 53088171, 23890545, 43836914, 82286480, 112215861, 102076810 >>,
       << 4635073, 86385345, 37971392, 43488444, 75915813, 101534553, 76306755, 5285691, 118549098, 68680335, 7497292, 97009442, 96270380, 95786377, 17698856, 66662806, 8573546, 124412953, 9112666, 18778595, 20343371, 13724194, 70166422, 21928724, 126181144, 95811834, 31542991, 12329160, 101288692, 48360919, 130502505, 47926605, 45386805, 10892939, 55383843, 46113600, 100777474, 9338403, 66096285, 53762236, 73163611, 8341692, 70421269, 55881942, 86143448, 105995591, 53148900, 93225836, 20801601, 73564403 >>,
       << 110440514, 12008959, 109302106, 27817237, 60196402, 21348733, 15468478, 102376460, 122329308, 116590250, 34997902, 30520595, 32113655, 7585204, 86538031, 91740761, 74851157, 3251451, 7044162, 86288920, 113131207, 93588380, 30268764, 64249118, 5690138, 5660750, 29393803, 101807870, 31227854, 127502281, 20485751, 128100220, 116834269, 18478172, 67187230, 42877063, 43345649, 52012760, 101463646, 85138411, 89961177, 53124555, 2584460, 68484185, 102748593, 38874742, 66065625, 3155879, 89877837, 95931070 >>,
       << 93566499, 55692131, 73823922, 9121643, 5386160, 26860242, 79143988, 4832588, 28029575, 30803772, 78213929, 65963322, 959975, 46893195, 94197251, 10821631, 78058777, 118332651, 49407992, 68336772, 120605227, 111271419, 22035756, 53308797, 28558624, 20435434, 71971570, 986492, 122836153, 84245755, 99892066, 83589707, 37771170, 35654499, 74660318, 50237773, 68569102, 52132821, 21456491, 112047958, 27056403, 101223181, 81553176, 34397081, 44893916, 26276131, 43896992, 120517873, 34942491, 52698234 >>,
       << 15994412, 87303617, 38303287, 60619406, 3867816, 59799828, 80982662, 129887162, 87430584, 90173693, 68693318, 103349887, 54450900, 27459613, 24807736, 15125464, 5591522, 52002935, 107996391, 14325007, 99698727, 125236352, 117337744, 27592908, 26862689, 101973164, 76531884, 98744321, 100297289, 40078726, 111793931, 92576653, 90490442, 28768553, 119004437, 79625763, 109771350, 40717713, 48444321, 62247467, 7297089, 86950282, 84036086, 30844582, 76080861, 119481495, 118699531, 113220994, 33867505, 29099216 >>,
       << 68598598, 3196063, 41594284, 1658976, 29047877, 111345308, 24282556, 115475297, 44819596, 27696190, 67054198, 127076683, 96628993, 52153213, 96632640, 43937353, 61456194, 132101045, 52446166, 80773970, 101181194, 22180457, 123590227, 65992475, 64448074, 75273310, 80093137, 38298018, 106703519, 132443530, 89526487, 115072780, 125872764, 33355581, 10425244, 82727823, 14396406, 118703817, 36337, 114444960, 4187584, 83117917, 6714649, 115046870, 1504836, 127075615, 36806704, 124843885, 1272, 40727906 >>,
       << 59735024, 51193448, 97810931, 76250555, 129011207, 21406009, 13050348, 7185727, 49398803, 28898236, 86674066, 25606788, 130317387, 56796333, 99568949, 117634408, 50039183, 10213902, 37578102, 56034160, 87728193, 3005743, 39925737, 103407201, 4696647, 120597541, 16116397, 40540480, 19037185, 35262440, 61327790, 124839364, 125123891, 119099706, 131974018, 107448905, 122750979, 27469800, 16149750, 123400632, 85457740, 99892957, 127832318, 91513487, 106402785, 4075870, 118150599, 124962484, 125096717, 63955393 >>,
       << 23431904, 1925224, 15111140, 11555511, 97282221, 31514701, 61101892, 116741477, 118975963, 77816352, 93270392, 74818976, 36659499, 36247757, 3027810, 94338517, 75595538, 64387599, 8493813, 98171412, 92852028, 20574887, 28920642, 8745327, 53356772, 91002205, 50657129, 4012857, 4987687, 66763043, 58047492, 111461275, 62505408, 55354646, 23491174, 130581383, 1780943, 77411508, 120448078, 5910104, 88128706, 8457091, 128772364, 103284977, 117625172, 37691414, 95281399, 37791498, 96485210, 64313267 >>,
       << 27205749, 107634701, 35874310, 3276640, 90092651, 36502180, 129277120, 117036727, 25242303, 31516805, 92566638, 60128082, 108763863, 261534, 133659040, 87265980, 5922102, 117241988, 75593030, 112124480, 115024353, 58430949, 75020246, 127794930, 94347940, 65569067, 106295578, 31074206, 96042088, 113877912, 99660148, 6347764, 38455675, 48859923, 11866994, 80268788, 49297789, 61237842, 110154395, 63414545, 73093732, 21997576, 50099110, 88395975, 121040351, 49831321, 97468726, 73957197, 72580520, 19554945 >>,
       << 43045133, 98676196, 85807297, 46545063, 54626836, 23348882, 77874708, 53925890, 49943747, 62744663, 132004852, 46632220, 102987046, 39251912, 19814990, 109283762, 90282620, 100885993, 119377150, 66372099, 90692354, 72782058, 54737449, 48362519, 129035100, 57943314, 11602526, 80819459, 33983969, 118752134, 18473928, 44668206, 124113693, 48139696, 86632730, 62619975, 60501156, 101160346, 72371781, 115668832, 91313376, 22048771, 119419003, 5738577, 46097583, 67961532, 123251962, 115388529, 131897652, 83894510 >>,
       << 19468347, 80368575, 45855470, 72505898, 84919213, 111670906, 99964544, 21398059, 114232420, 107204470, 76999716, 18726231, 131161855, 109556323, 106337726, 27623724, 110687414, 93041716, 53197220, 10971412, 110520698, 56234015, 118208642, 15016273, 132943187, 67294573, 73014006, 5634248, 69735350, 13933855, 77237550, 542306, 34187558, 125427173, 73879955, 89206059, 126472004, 22105914, 99282365, 30438208, 91806360, 95261430, 105726558, 44949481, 65656627, 15692917, 43686165, 98227874, 112268939, 106959850 >>,
       << 50106447, 73611807, 125752356, 53010703, 70212115, 88166537, 109972758, 52720687, 29403268, 77446237, 47128455, 100639984, 54760624, 92315079, 100873415, 132600482, 14284340, 30308351, 85962340, 86423099, 60888421, 20897858, 111984464, 93139430, 120156320, 101108755, 25277376, 96126990, 80009, 119881064, 106514382, 130094621, 67714331, 107365486, 14468787, 66465010, 19375073, 122922460, 9691415, 93272917, 127521686, 41145240, 32458322, 101441835, 54508486, 40648859, 110760758, 28084257, 72741563, 85664279 >>,
       << 12963717, 127714955, 109319581, 25636468, 3154870, 2177011, 4173828, 39699466, 16250483, 27794800, 24926126, 111086188, 104162063, 91332683, 9574576, 8995520, 34015322, 60746857, 127642758, 15965592, 56628811, 126818923, 47984755, 88796442, 54089853, 1418473, 93659615, 80203261, 40294239, 46059442, 52042563, 50320365, 27977471, 40773548, 57515501, 83115371, 79146958, 123420675, 64215060, 85257731, 82517485, 79636235, 5620351, 91149597, 65945661, 131132527, 4230279, 67108172, 42900260, 47177123 >>,
       << 4166161, 34330502, 94037168, 63565178, 115584934, 107083163, 51506760, 101054937, 72345677, 103319115, 13154252, 56734057, 92421138, 78802545, 83246092, 118196929, 47117793, 127389039, 130374047, 91918765, 65808087, 133498095, 3667919, 50998347, 5190410, 129220568, 65424216, 101877895, 121584540, 11653940, 63736212, 33843856, 72978870, 12354586, 11135331, 32935623, 97211032, 111485279, 96047345, 84731492, 123790472, 12617221, 61026948, 50982753, 100536087, 45282739, 32397292, 81014992, 132070277, 62985628 >>,
       << 4609325, 43335214, 41582474, 74172174, 104309155, 94494660, 114708133, 60558903, 29065567, 82371735, 55110751, 12744478, 1381630, 91781274, 17231429, 79648700, 115791873, 90629539, 104801887, 3789737, 125565809, 67953702, 59650381, 9274392, 67387045, 24324718, 62166964, 36875132, 93567345, 75839721, 52100383, 107549695, 124148777, 71895460, 87738439, 97218051, 6538400, 33984506, 78606097, 15793207, 93713040, 69355175, 65914192, 23342969, 121099521, 60629628, 39378068, 114562221, 21843423, 5344079 >>,
       << 38961615, 80681007, 44481849, 57274946, 14720271, 92181723, 20776392, 129998562, 112390494, 10310693, 26725847, 64712566, 65263028, 33425940, 764034, 51983019, 104118075, 99929228, 108287219, 87761151, 121522068, 23707092, 103678184, 50562450, 5888759, 40570882, 24518599, 29987280, 45643477, 116174246, 91675155, 78325414, 113486245, 66216456, 30699959, 95808365, 59682115, 108504095, 94057102, 127243927, 122360289, 15581274, 13628162, 22069861, 18683820, 17716606, 99368952, 131371900, 127060222, 81229370 >>,
       << 75533812, 3178034, 58800423, 66591543, 49214371, 106614154, 93807615, 57710061, 2756510, 95081020, 70487824, 120485840, 93121882, 49430818, 85205708, 72945272, 14271117, 56186841, 63573301, 4501241, 37433620, 58558003, 74797064, 94227255, 56674138, 8984340, 8747686, 11709551, 35269140, 117813774, 127327262, 89214834, 48001975, 63703158, 53865194, 68063630, 123382928, 32646040, 121683971, 124536302, 117512047, 18458598, 16241805, 3235892, 21742644, 11593395, 76560560, 25070625, 89206598, 26376071 >>,
       << 59874812, 88565173, 133750709, 73271993, 50105741, 74808730, 35300159, 64139933, 8968278, 130307344, 106031758, 88082088, 24898755, 78130892, 55466250, 15549100, 75117177, 5335928, 31171838, 27172012, 19781979, 40311369, 17879790, 100212612, 94150233, 52440176, 1502382, 49910011, 8052256, 68477351, 105775259, 1632815, 15133395, 70405670, 89377087, 35686818, 78594257, 71205095, 1188832, 40714161, 118163226, 108912551, 18396122, 42886482, 123578511, 32705658, 115505855, 64476742, 107538638, 28663679 >>,
       << 25322457, 89125450, 63721148, 64193042, 64254637, 28739034, 13293865, 23141548, 52057357, 74226771, 85013047, 84158514, 72665857, 115251796, 107893599, 9518525, 19610873, 89534277, 17039689, 115138091, 68433310, 19515608, 115586357, 102075001, 9126002, 64114251, 68905312, 132857689, 132521446, 9742877, 75988361, 22110051, 33160881, 84146588, 101121481, 55500187, 112712148, 83969764, 48549573, 125843689, 30244897, 111129009, 35227919, 54544939, 8009176, 100981519, 57964749, 5759135, 116859178, 43015114 >>,
       << 104774653, 52966186, 3713165, 25851098, 90148139, 97508541, 124927174, 50154780, 52449097, 60374937, 81394530, 112256008, 116358103, 30161549, 100476532, 121803648, 17089453, 64339388, 82529913, 127424687, 106094764, 68390278, 119285219, 54563778, 86710149, 117020570, 101392120, 85274489, 21110452, 32392187, 80393580, 69962130, 38604733, 66724126, 103763614, 10073766, 58081584, 80506717, 4149208, 56011264, 8903195, 75388309, 11387389, 94552949, 119675299, 104293619, 19537240, 103739307, 86087267, 5361803 >>,
       << 49596286, 37230579, 52783449, 37692831, 62345086, 87263918, 108288390, 132429800, 123092523, 45833023, 40734662, 112249570, 71845535, 81241436, 43900976, 123389953, 41358100, 114807012, 127304970, 63070505, 68644309, 65469731, 51820639, 101658883, 116924988, 112676816, 92402421, 79129551, 93314816, 75187117, 123943897, 91561158, 81229215, 80442305, 88719102, 105470446, 77039380, 18423710, 62992151, 45241475, 12212161, 92801368, 65723137, 130892705, 45957495, 71503033, 69390240, 82727332, 84740493, 8446908 >>,
       << 33768232, 84439241, 35998754, 125380949, 36406719, 117407161, 38781804, 79783556, 68923207, 30580466, 42017078, 124395652, 121575870, 43508602, 121764689, 32133709, 75969237, 25671365, 46776651, 130505357, 41117283, 25749206, 110828304, 44962735, 69480727, 90744621, 55235862, 37382608, 35421420, 80230057, 56887930, 89883548, 88464398, 25280282, 103121366, 82282678, 119527650, 105615042, 18693532, 107675423, 103335440, 92386381, 39596283, 25496811, 92221454, 92070631, 48517955, 95646376, 72850150, 74209410 >>,
       << 43103015, 27442758, 107109859, 62101258, 78081032, 69808342, 23275449, 15731762, 97253185, 97004861, 117594281, 39119248, 85710818, 33155420, 27613126, 80279816, 106024626, 85019446, 111452960, 45281312, 24572290, 119087801, 86902936, 108659651, 66700263, 50331463, 32968412, 52563720, 65007459, 96239674, 36338173, 125155872, 76261088, 61616570, 72129763, 45821856, 19641411, 34188706, 81333763, 9670420, 33894767, 16700614, 129723273, 50541298, 109134384, 73911477, 132052469, 52758434, 438499, 8931707 >>,
       << 25357498, 108983611, 125375732, 34200134, 124527974, 66445238, 61036929, 125460157, 132990139, 73906211, 78327265, 110213993, 37190613, 68601151, 76162338, 56437641, 26734831, 35661812, 6844169, 131745120, 57405901, 84303862, 131761095, 65707576, 79896025, 14506141, 63937051, 58676263, 51926784, 42029205, 16031606, 18753889, 24307465, 16497586, 48497553, 102022172, 107548636, 133437920, 7315154, 5507572, 113705865, 9432819, 37226095, 14423255, 73617175, 71836366, 36025956, 17102306, 105209336, 12870221 >>,
       << 124251767, 99726875, 92170571, 56809516, 27500238, 5360304, 119629809, 88623556, 76043381, 8036942, 1322863, 14956155, 45312695, 131108743, 83800183, 96579313, 37201638, 38143081, 57687134, 32303559, 30935620, 29586634, 82988418, 81022047, 76586930, 100895031, 35800669, 124534125, 74170836, 47452870, 112845970, 31724015, 20361218, 3080842, 74317731, 78399260, 42509142, 102321049, 29510761, 23064287, 108140606, 129707973, 110745647, 51441896, 27265151, 72707256, 82717934, 2340833, 128107240, 21527957 >>,
       << 12237670, 76670571, 99382336, 82427437, 131355198, 130739611, 36202434, 108656006, 65264320, 16718600, 12842443, 33043458, 113465287, 54546380, 29658559, 32483979, 61673933, 81820094, 22232167, 119706802, 23292561, 123161614, 29573751, 37509920, 14413227, 425250, 32047266, 90081784, 41405395, 58410653, 77797637, 115547404, 80492563, 114029978, 51902437, 59883280, 28640427, 31162770, 13470978, 113720293, 11005469, 54832587, 95620066, 59610531, 59395043, 20184404, 99208964, 119201235, 51603430, 114163771 >>,
       << 82551005, 100756467, 51024565, 3090576, 72647307, 102684056, 36470084, 27531916, 118354038, 90370294, 65970674, 58606209, 105976674, 117460203, 70321416, 45941216, 43228848, 2780428, 66978961, 68123460, 82629511, 52063146, 112503843, 59349666, 81410291, 27577660, 50057985, 19396573, 94416318, 10382674, 80658619, 112332151, 93808641, 91708080, 50689240, 22599802, 105772958, 54224809, 27800640, 29249849, 42172791, 47414491, 54371908, 36794685, 33388761, 95956788, 39014249, 120588267, 30990266, 50928119 >>,
       << 80589106, 117807002, 63043814, 128936942, 3258266, 92139419, 125529214, 75606069, 32758909, 86634490, 93627725, 8683210, 60699404, 95706590, 107387690, 2936591, 52193231, 76726438, 46329832, 48254034, 51133053, 2750674, 65895196, 58558100, 97197591, 59770852, 122029152, 56926814, 12007239, 58701780, 34215552, 46738646, 30676379, 36120895, 49203514, 122352698, 133828373, 34877696, 64227310, 21219581, 22621278, 29412039, 114574553, 78583752, 86571635, 69413354, 80410541, 71261098, 108735439, 26268050 >>,
       << 113535118, 4871204, 131420831, 51196558, 48932004, 6439568, 102100800, 30679513, 12075904, 94905965, 122923295, 21307557, 12398601, 82604294, 93323303, 74198784, 6719620, 33606927, 10637474, 70498380, 125092277, 34245026, 60814164, 20002379, 39346304, 19009798, 115225953, 58504671, 37381443, 116904810, 122938456, 24967191, 30747760, 54957378, 41822022, 22364538, 69861397, 8962912, 31113767, 117012372, 12384401, 83341780, 6998989, 76854285, 87861865, 105106002, 105261991, 117014757, 128022087, 116340872 >>,
       << 126367169, 99468078, 23614794, 38687319, 73543067, 63115666, 126435261, 56809533, 120114398, 22538675, 31708297, 2306103, 108411514, 129029157, 26224131, 80884211, 95634032, 10341136, 9043872, 103728334, 13624482, 36110491, 109694774, 105111753, 23988814, 71666002, 16661423, 104563571, 62080682, 74281278, 102120938, 49517025, 97067401, 24014770, 20497544, 71626275, 125111069, 25072772, 32970120, 105617052, 1173934, 43684898, 114810828, 23057873, 102857706, 36552513, 68886699, 109160052, 2780717, 67231416 >>,
       << 67714151, 120103148, 7630287, 52855703, 18112562, 22414530, 6488684, 62957092, 20925806, 113620288, 17755795, 32470699, 115653844, 81734449, 111975155, 49283521, 77022789, 105113614, 37483931, 62062977, 32989230, 61061571, 23507564, 95322663, 14747331, 95754912, 33314826, 21754935, 85917615, 81337386, 101269103, 5673858, 9002523, 131916739, 50657139, 18240760, 76959, 38547666, 61843865, 70986823, 107218228, 65760850, 90935921, 101234867, 53018273, 73862129, 72674732, 97473603, 54210333, 119291736 >>,
       << 70471123, 62628704, 129131533, 86886282, 126605615, 69747067, 47504416, 105546770, 81271137, 77506963, 96416090, 112424491, 100575155, 54384837, 100882240, 33746338, 70259009, 125744577, 54717654, 22400338, 67531991, 115148990, 67072182, 16943624, 108023625, 4887763, 27768710, 9853872, 80503553, 133508332, 49325184, 113004081, 40056231, 15507005, 81120624, 121354999, 55353136, 51347982, 50458379, 40200620, 50146886, 3204562, 42217539, 65393775, 26669444, 100705088, 2153059, 28933373, 58456858, 104028410 >>,
       << 85691801, 100709937, 19752845, 60389982, 116124799, 79246161, 106102375, 101838532, 100559319, 18769693, 87116877, 106536734, 40530014, 53198642, 32815131, 19101240, 2198223, 120863544, 30477018, 121287685, 58925077, 33946341, 65333946, 53584976, 62592309, 95682513, 62438718, 49870894, 118431500, 27473351, 62182980, 17503885, 55807734, 128797796, 6891577, 32932467, 127201554, 19533708, 120398518, 85902415, 123848969, 13594221, 39650344, 50202214, 7129557, 47050710, 62423244, 122056532, 51882781, 119057369 >>,
       << 87702160, 117053009, 58167592, 10485555, 80293939, 39453440, 47617011, 110205400, 68794840, 74035401, 64036365, 5439094, 125356294, 131715568, 116585415, 113705845, 64351832, 9094010, 47309391, 44486784, 25968352, 41653367, 123746770, 68010479, 22272814, 1483935, 133157349, 13596622, 19587604, 99903316, 95442900, 75375348, 36186255, 8037892, 3312964, 68384832, 29352584, 84647699, 69939654, 49830537, 3239995, 60177680, 54145049, 44834214, 107174355, 82265540, 61779208, 46563585, 83452915, 43828083 >>,
       << 38242277, 49387766, 6833876, 107538459, 69390232, 78600742, 16548749, 118585796, 58840762, 101803137, 65433400, 58171060, 102493978, 68984106, 4852765, 89431958, 104596932, 73549938, 97799685, 100520665, 76014287, 67907156, 9031400, 134035799, 129940136, 20579604, 125218104, 110691101, 50724233, 44312259, 88666413, 95867853, 59037205, 98173534, 96978149, 85255730, 35850340, 19320840, 19087269, 102288506, 122808525, 26351536, 12507696, 82795474, 51524781, 37011857, 52935392, 29559783, 5622602, 5907381 >>,
       << 40655931, 1626011, 127984611, 17843176, 26104468, 56153459, 76409465, 25993176, 56047853, 107303270, 110853390, 118536614, 20353642, 57299090, 73424609, 76260745, 34245368, 132932766, 122953003, 28268399, 76098, 133013325, 8889007, 21930027, 115271641, 5027929, 35635838, 97608223, 64782142, 105630983, 8870325, 29406359, 62855049, 122827208, 131694068, 22226983, 124127478, 90276427, 66234064, 15332633, 10733328, 89847647, 61687310, 108943157, 120716137, 46001399, 82785273, 97700022, 131460645, 49944615 >>,
       << 114164771, 62938222, 128267644, 128382445, 34639362, 77449461, 74969806, 73541296, 119342417, 120973917, 109304290, 99604498, 44372362, 84761786, 89246937, 43826526, 70693706, 20884053, 89624137, 91530757, 112119940, 96175605, 79158875, 69799698, 91617213, 37441996, 108204850, 79705240, 104461135, 120338289, 32923144, 30359901, 109378302, 2983015, 58233497, 64880308, 36532526, 44044033, 126156617, 68294681, 40341681, 66957784, 130561790, 97210784, 133051765, 54319134, 6883566, 127788759, 79415669, 40311286 >>,
       << 107598835, 115846799, 34580161, 14293758, 110604668, 19860461, 74492729, 30014467, 113345286, 105156429, 29387314, 118211747, 128335877, 33385051, 62323676, 121490486, 20569974, 124292546, 13233496, 93600990, 72774096, 67893186, 48720083, 55384277, 99659826, 53667053, 56276356, 76044123, 44454674, 40142446, 10888977, 32547019, 21803062, 83625448, 64582036, 127304390, 124609060, 88970561, 8901399, 104014181, 42138595, 124302326, 119360698, 7637396, 58468386, 54482291, 109395613, 58004568, 20675696, 55596056 >>,
       << 63508357, 131313071, 4106460, 44799978, 125841739, 49711575, 15868079, 41340055, 31632745, 65299603, 117991588, 133922250, 66016435, 124531974, 128617394, 53196481, 78976828, 28726428, 54400820, 57727800, 114011257, 31556108, 38449029, 32646566, 81949683, 107982123, 22131755, 45112093, 21366388, 80259807, 43908376, 79650979, 50579634, 114514376, 11123747, 13510334, 11018586, 11047495, 106863389, 98976207, 1139490, 20138866, 72527294, 57518016, 66122158, 120337106, 12390315, 125409588, 130199277, 106513763 >>,
       << 108461143, 93601229, 86969029, 20386018, 133122145, 6893126, 280147, 63244486, 23833454, 4386856, 17915825, 39114136, 132030121, 113223362, 49226631, 91098903, 92027955, 123223090, 110965496, 93950313, 47949350, 89396822, 76772172, 11746761, 5426400, 22175662, 119840288, 41576275, 44310874, 13417922, 5226739, 133723207, 78230615, 11052264, 132631901, 5303441, 82458452, 28603, 110250438, 123822715, 25803109, 105970625, 22808207, 120400836, 52460899, 110621032, 133342779, 65815017, 14433569, 35880464 >>,
       << 79640794, 39114862, 82602298, 112320082, 70610268, 9621170, 111642603, 82240163, 38177542, 18604725, 8716437, 62053763, 81358455, 114406579, 34894223, 21125070, 86364279, 104163045, 93944722, 69107561, 12901033, 66627763, 81400849, 30036841, 92480313, 38077170, 4299495, 52800378, 114374500, 45453854, 89255940, 21851520, 93269076, 63439392, 108752704, 60734656, 48150867, 127735626, 68300164, 41124145, 39413474, 87709864, 94711736, 109338864, 53833929, 56098929, 108309124, 124889206, 31557954, 106603437 >>,
       << 132150596, 113698905, 41517045, 89423281, 43836805, 28259178, 32303694, 61912861, 19960983, 94386552, 20833152, 4938897, 10664018, 7885034, 78877489, 117459521, 15799861, 19821270, 14451825, 133979588, 60253048, 16926163, 20042306, 97008511, 9857239, 37913187, 103396869, 44658024, 92304995, 42943014, 77748344, 32112135, 96454292, 64638823, 58429652, 55013238, 16457576, 124805477, 86477961, 89693592, 126510775, 90146087, 74104323, 97895787, 78875839, 40607036, 125820556, 95175236, 28155104, 120204006 >>,
       << 63515624, 88071212, 4541408, 48883349, 21009229, 52451520, 25701165, 46316611, 8865799, 6564882, 4211686, 112893396, 114496792, 107861041, 33847289, 52285733, 25039993, 109054428, 66789013, 62210446, 88359482, 129728484, 53350155, 105189759, 95179391, 115772776, 43430116, 60345934, 17837972, 109492298, 43876873, 100029956, 129747890, 94943545, 56686642, 88369598, 42250180, 128589322, 122875422, 100866516, 76043568, 116518954, 93932981, 24690946, 998405, 116658580, 105120221, 22035748, 128082578, 33635013 >>,
       << 55807870, 12511284, 65349833, 117510433, 132656620, 44903382, 19886742, 5640563, 118677882, 18836248, 32215392, 68824758, 81057016, 66485777, 128454769, 37294047, 121776670, 27146258, 96742043, 24228034, 56085588, 5160548, 103463070, 1238177, 84763590, 48416029, 95477823, 46031713, 107402183, 82527384, 50066419, 45255509, 367395, 14038805, 64800099, 103558107, 110638899, 130093765, 67253402, 27073491, 28328230, 19838164, 44629799, 91315797, 88404605, 115128488, 98857458, 99865030, 67777421, 36701305 >>,
       << 71252044, 52437549, 119398261, 70965631, 133362904, 79253930, 82203497, 124363224, 82171382, 26395394, 58376344, 103308973, 127482271, 98149542, 107411689, 5291565, 61062690, 129405018, 96516935, 79319341, 73433630, 38949083, 72315471, 133786904, 101438212, 61261852, 5974522, 38183020, 44641542, 2404497, 54671752, 79097226, 84160250, 129531616, 106278735, 8428667, 63688669, 111340687, 117874622, 56001691, 124694766, 62215698, 122689123, 118697838, 81706445, 76758803, 30996944, 123894977, 42302682, 112045250 >>,
       << 79308405, 29917070, 60300178, 35527500, 40303235, 119656875, 87517299, 114375613, 5195631, 109620486, 30799334, 89715454, 121383886, 77787726, 34110350, 52990847, 35616810, 575125, 71235095, 30765501, 5441743, 29769617, 127776429, 110260820, 60297305, 32075348, 53281778, 302045, 57715067, 6410742, 128666140, 10214735, 107695120, 107814928, 36726628, 71841063, 109310229, 120728026, 73356152, 126153511, 55935917, 2193574, 67343991, 116574260, 127855438, 98348052, 106653395, 102915368, 85901983, 105762742 >>,
       << 41098021, 103200126, 80563516, 89028524, 6871369, 66657301, 132723668, 77869937, 28644016, 71684347, 88756651, 74136404, 38595265, 104646180, 15552030, 114787548, 31518806, 124235841, 132778522, 52214255, 75263223, 97404654, 44102252, 23788309, 73157151, 88060591, 26878050, 1907415, 91950423, 57646579, 10694051, 44127410, 86817795, 32963378, 127047623, 64406325, 2777085, 13349287, 17431859, 124967707, 100584140, 98115384, 34654107, 22685833, 88242407, 39234073, 90168928, 34506369, 55777619, 21724678 >>,
       << 121595160, 57237068, 27392942, 97866439, 21999265, 48510263, 13100228, 102689003, 125056223, 38759195, 41539369, 133933868, 72788896, 92819275, 73642672, 85768162, 9205963, 10230849, 131911009, 20880066, 117201760, 16299519, 114491786, 125775811, 446705, 127988083, 32152047, 8855990, 104510629, 103393209, 106626122, 101797152, 126750377, 36245645, 129539391, 24021010, 15216365, 102663179, 60571332, 45302488, 16299272, 67171016, 102810751, 112097478, 104627755, 71751708, 62451136, 68555677, 16387650, 64591190 >>,
       << 89657224, 82458809, 37352869, 105427623, 11176055, 47816281, 105897791, 12352071, 47411092, 23675811, 52060463, 108260274, 25407437, 73189524, 126827796, 33591464, 97350164, 2446459, 122261603, 122658879, 83260889, 107961429, 130113633, 106476243, 102875731, 11599659, 133160492, 8513830, 21782481, 19570681, 45916044, 21520447, 70073291, 109416700, 92547123, 71780879, 26061115, 64248731, 133025006, 124112997, 101645012, 84767925, 47161772, 3998226, 45658290, 114555666, 52248036, 106389737, 101570113, 58035954 >>,
       << 13900847, 108350621, 68775814, 104134457, 108959217, 54017185, 28502474, 22484558, 25520653, 83359286, 85562356, 64883953, 103812497, 78699165, 100359204, 93597362, 8979241, 131014925, 133281189, 99945400, 30434030, 112006192, 88184498, 125332006, 122525049, 104792573, 66353912, 74820714, 103460261, 61452014, 51979251, 43246831, 86238565, 49509001, 26724504, 120792000, 5632397, 4882771, 60788473, 25243741, 499523, 76630175, 47703861, 2297985, 132561802, 89198449, 125348627, 50001122, 87069298, 45462982 >>,
       << 55771986, 100627415, 112409913, 998284, 130135325, 42301424, 115696600, 62207404, 11438741, 17995861, 113148549, 12881862, 79812369, 69862230, 75351481, 102827577, 15635545, 79575745, 18222781, 63542673, 66349917, 74300929, 133699067, 74035112, 97429142, 102218072, 45728427, 16072981, 83878905, 108827667, 4359404, 105514759, 112102231, 85641687, 42556000, 33022604, 41883739, 72085863, 110349061, 57128515, 39386369, 5226275, 115246980, 14304153, 7370298, 126036971, 40292848, 89231121, 129396358, 134003396 >>,
       << 18377021, 93403026, 34665942, 109480508, 50946520, 134121191, 20540246, 37670632, 45626134, 114049769, 55301707, 131709234, 9985429, 130879673, 71264557, 48826428, 10081316, 66878955, 41390751, 99137025, 40241177, 54609285, 3051069, 3509495, 131701664, 38272885, 43990376, 24800234, 95536220, 12492482, 116702970, 18444834, 125011776, 70458179, 80920728, 80469693, 114295776, 13438230, 48658243, 15216825, 12771791, 130813844, 35460303, 103079051, 44799885, 42723076, 119240155, 16606352, 24510701, 77364623 >>,
       << 28495828, 78145345, 107424056, 10581573, 31074005, 6587232, 37113201, 41807281, 112939814, 102090622, 73847719, 101312994, 72652905, 122537189, 115326929, 10692205, 108928034, 95672259, 73677009, 125521668, 77492199, 116809744, 92674954, 73291553, 39890367, 121644132, 74137409, 88301804, 39935956, 13480253, 120168596, 54176956, 100972255, 124928164, 5467685, 41861461, 123324390, 117838369, 56394418, 12477883, 88301509, 44730279, 36111036, 99467996, 6986498, 18373284, 9227140, 12658740, 127370452, 126794957 >>,
       << 78960861, 538139, 14338304, 119642001, 64018781, 5707588, 62978060, 108649328, 48469806, 54490879, 72741232, 14346658, 35471363, 21314707, 79303061, 126118650, 75321709, 120128157, 106583253, 33229057, 11007045, 44837154, 22599555, 24847621, 87038284, 123233771, 76371930, 94046021, 116325457, 13941705, 84669760, 109018110, 2260963, 63124701, 29315551, 97810988, 95047827, 17000208, 22732400, 99034116, 128485497, 110350545, 115940668, 91596636, 68408689, 32022542, 132828151, 54748819, 709540, 91457463 >>,
       << 70192532, 117450275, 36683639, 77402122, 106657595, 97958979, 104188163, 112989877, 25172528, 66122740, 73492765, 31931968, 7968729, 57676460, 28320949, 82310089, 89507425, 52135687, 25833126, 110733031, 70837586, 39286375, 46206851, 18281865, 54293834, 130690686, 79291824, 55236368, 122238290, 77622366, 38609441, 36152919, 33424331, 82729773, 114909162, 119395755, 16730079, 94879097, 56401535, 34225424, 87018401, 81236074, 66797108, 194969, 131240221, 15382790, 54431323, 79287426, 25657723, 100231871 >>,
       << 33948523, 92784710, 17205509, 77392091, 24744102, 109313122, 86009479, 77873678, 16103071, 129811945, 90063286, 33390704, 17776946, 95437957, 5396384, 30984920, 133968751, 33553891, 99976121, 6249742, 98147047, 9690419, 91814075, 52978256, 17845866, 129549621, 29277674, 37117787, 128768463, 15114735, 77118114, 378180, 87490228, 28213232, 96265854, 14867878, 111396782, 93445620, 1846825, 55479681, 14355076, 45816159, 27693606, 60005324, 19378852, 19728335, 97215807, 86968167, 105441109, 16541550 >>,
       << 116608515, 49493703, 43635741, 131164275, 55180510, 50831560, 88519306, 69641006, 91310270, 36918544, 59513720, 89002424, 27051440, 115126092, 85235179, 19584444, 27753738, 52239020, 47402774, 25233025, 116762856, 89369812, 115174055, 127072668, 88892878, 32583837, 65755054, 65620860, 127391818, 36761893, 58713655, 6567733, 33837801, 410356, 58155654, 62220991, 21287616, 8241585, 104876804, 119311062, 111895983, 7998345, 100438389, 61572062, 70367938, 38798708, 27358925, 55486192, 14819849, 118286968 >>,
       << 38548665, 18884147, 38043501, 37490780, 23764601, 57197191, 103220622, 1847858, 63516387, 105454227, 102358913, 71080683, 8763750, 78716610, 60992435, 46686694, 40694236, 86469773, 30107148, 60309806, 26967563, 92399631, 115943690, 36992495, 112671483, 63999739, 129319878, 52424760, 36190400, 21536347, 64471524, 29603821, 58804717, 121441078, 17916286, 2301266, 104825094, 31463449, 86600010, 65216738, 51617675, 29376621, 132404864, 127307574, 74054169, 68410468, 86152815, 125356171, 19420254, 14740381 >>,
       << 35926836, 96803552, 49772507, 70065443, 34200177, 92597864, 13265355, 36482003, 115696004, 88354700, 69320842, 107301884, 41636644, 100180505, 54185675, 2724561, 8451391, 76122371, 128467052, 118757003, 14377289, 32376774, 120631628, 37958563, 33836123, 108677457, 32788611, 101701727, 128537494, 89717427, 125006583, 74619451, 114870263, 82355208, 77096497, 107239246, 124074984, 71124566, 123725590, 24554763, 84224219, 66711135, 131191352, 70910956, 452426, 20011366, 128664002, 2626646, 43939753, 103145400 >>,
       << 92561615, 103305577, 74339493, 56334691, 76229101, 45808008, 196027, 64561311, 25960277, 25148626, 14558091, 98330449, 41115997, 96754978, 102564116, 57022224, 33711159, 93419153, 107990670, 36499378, 78677406, 26771968, 84402421, 53949308, 89903903, 112999250, 128936795, 80741671, 75861963, 75701752, 47900630, 12896972, 50992202, 63331235, 83834973, 26342744, 119488281, 32867782, 43582517, 6147632, 115131489, 45117017, 47899710, 63268066, 101861394, 32368904, 71469059, 44752107, 66189546, 30544959 >>,
       << 57824109, 128513715, 75488785, 2205381, 92573899, 10236554, 13850251, 75854351, 120249059, 18387256, 31045155, 55127958, 116306581, 5889037, 27509178, 62690802, 55346005, 71803895, 133674958, 99135276, 9744739, 13772773, 91397004, 132845296, 130986740, 73627558, 59227756, 96426172, 18216197, 29626168, 99055968, 28794231, 29322608, 49778266, 12999817, 4914498, 34421014, 1570055, 123239181, 78852864, 54913597, 16143367, 133052125, 37636112, 86304579, 79004075, 119427144, 60376084, 119870220, 28062838 >>,
       << 12547070, 45743318, 123959086, 31770612, 82110921, 15942261, 12550720, 108101079, 33596935, 106179583, 80305616, 72060301, 100182492, 84437310, 125932697, 102127710, 32374658, 5928471, 63889311, 92475571, 37189249, 72621876, 22419424, 88220912, 101646628, 93397937, 97799706, 853168, 124316246, 113017608, 65706214, 109664663, 133178474, 29039152, 106800037, 55272067, 119113975, 44391723, 13434328, 11906479, 67605530, 78232723, 30780047, 124126039, 77265763, 37268231, 12470, 57325158, 93466418, 46836458 >>,
       << 125447247, 47902263, 101109890, 60714168, 74663558, 93407352, 22051215, 3610372, 99173573, 13087728, 131627983, 84182224, 76732842, 2867078, 89563301, 36944494, 25842902, 23094606, 110369120, 21066031, 31436416, 98982219, 6067200, 98306463, 24077528, 26287354, 111035301, 28061024, 26527418, 17801051, 39594225, 61854927, 8224212, 88806672, 60326441, 30282898, 83033289, 18054303, 4226637, 15821079, 97407689, 122438946, 97181942, 27402375, 49209911, 84172039, 101547708, 118133929, 102152120, 40210777 >>,
       << 112037764, 92175332, 57958238, 20660064, 92330674, 8491684, 111886537, 120951177, 21349862, 63582971, 50745863, 1023114, 23001583, 50269323, 4715002, 71542030, 23500952, 91863933, 113133157, 119843061, 56419315, 14565901, 11385328, 102598388, 21143899, 28425325, 9826486, 20634593, 55707449, 14554533, 58333502, 30770370, 93910471, 109065265, 22305534, 35720719, 95790791, 69828365, 95794186, 74490480, 118625471, 90884426, 71251601, 127502395, 120918610, 125097947, 79414336, 120658389, 129102838, 123096160 >>,
       << 78600648, 132124941, 44298465, 118969010, 60808034, 21125488, 111236369, 133844288, 79761514, 71517618, 88653040, 76140861, 28935675, 127992455, 60271621, 57027276, 23103570, 82000153, 112298634, 106665048, 59737061, 37470286, 42376590, 34927300, 81373700, 28742337, 124314219, 98437213, 107146295, 103590521, 112155515, 2688078, 26342866, 54467723, 39665931, 50402263, 103690988, 71866578, 62393578, 124453062, 12217134, 117403567, 78034525, 15481681, 106918083, 93216577, 17015981, 120907482, 7219866, 30834888 >>,
       << 98918945, 93988591, 71610914, 127448136, 115048188, 15188734, 75170631, 64333466, 52963261, 122048606, 87195255, 77935179, 95623282, 99000642, 109616202, 18148672, 7090950, 69518667, 24131353, 72346760, 117547763, 31111726, 107232300, 16968753, 32277069, 121869866, 6812646, 68238437, 115199499, 81456926, 72970220, 118704979, 9955322, 32412874, 72343742, 74125405, 11216291, 45514836, 70474490, 72150950, 12554260, 34850736, 35049643, 44570467, 73673108, 18277763, 111147057, 23932371, 5908071, 57407701 >>,
       << 65834916, 114117953, 112461226, 27554949, 18751884, 107759394, 106035781, 29596058, 93788062, 85395947, 11996795, 69518752, 19840362, 83864611, 59370896, 9587874, 56656310, 96760222, 85074507, 73380359, 10758474, 99017935, 102024209, 43196957, 61860844, 22096886, 91447764, 37085870, 133244902, 113712731, 45322842, 4021179, 4443428, 102740912, 1547478, 104696211, 3667070, 104059575, 89238969, 92728819, 3249036, 115814569, 108662334, 97051500, 4073160, 11225138, 43284762, 22135715, 101677783, 99616134 >>,
       << 108444184, 85501953, 78630186, 10880118, 11090760, 92335945, 25558010, 64529182, 127921393, 108095371, 13188314, 58918771, 105179679, 120030149, 72347561, 86912383, 49867187, 7683639, 105691868, 84670720, 100458176, 130009152, 81184381, 3468355, 96532800, 20102493, 132661192, 47424065, 41989214, 50874566, 90218279, 15456185, 106661427, 122709767, 67648431, 86651909, 38904591, 101002777, 39210089, 35004529, 21377455, 11413934, 73252711, 109087589, 19856655, 80577383, 89676711, 77361086, 72479365, 63992105 >>,
       << 38545157, 65919584, 70091471, 122172169, 103077484, 10281598, 20210136, 23585405, 110643326, 102438816, 38785862, 67298838, 83437116, 105805158, 5698862, 42159618, 50928280, 62931255, 5420136, 68067673, 58343093, 62721659, 3523397, 5925231, 80424826, 6556958, 375217, 88857117, 35069118, 118889093, 32965597, 50720307, 46352382, 85452121, 45833897, 11903576, 48515244, 97160109, 69241678, 36920520, 71140123, 20127103, 54382788, 50696877, 75564783, 16501040, 31648778, 55428217, 20035090, 107065499 >>,
       << 36159501, 68676872, 30580804, 132965146, 43169846, 49602348, 88761392, 6576388, 49151960, 41624456, 110270361, 22848643, 105379694, 77420166, 50375339, 97925212, 5620119, 74161109, 95870127, 5284956, 83888349, 63051358, 7118468, 54590632, 27906082, 32264580, 55053892, 80812831, 114893813, 82437710, 74928707, 61743329, 82958783, 47657637, 105565359, 134048751, 2280944, 103665273, 83805299, 104503775, 85395354, 127923646, 125976359, 114911359, 124103396, 70574608, 24798930, 16880118, 8658992, 8148595 >>,
       << 35944941, 107641775, 6306434, 124572654, 16429653, 116132067, 52569938, 33932270, 112058141, 70944243, 16678492, 119481290, 74597332, 122840752, 71040051, 99120626, 667294, 35112407, 83963712, 98419846, 34716975, 129137861, 115017312, 86406343, 23816274, 73481208, 127298162, 63571122, 66900453, 118172533, 124943254, 33422272, 69211163, 26018939, 50746101, 96392675, 102522590, 25190520, 70910084, 86938535, 8612204, 53647995, 35943432, 32511183, 20785082, 90328503, 8795362, 18991936, 93502047, 53698183 >>,
       << 83090797, 90986606, 39614511, 97440676, 22933935, 70024539, 76694751, 86595409, 89858121, 89520401, 98052999, 41271494, 54712677, 39941414, 21285974, 2779565, 32576819, 118037259, 56344563, 101532953, 96232919, 17516806, 49426552, 96938683, 97338527, 113419295, 70910050, 57832948, 28705725, 13971111, 41551799, 128952856, 104460965, 33802725, 11028439, 62003930, 117231695, 5473245, 110331927, 52369622, 39141287, 126896532, 131829778, 84776255, 52328922, 21028161, 47603817, 126988991, 100702617, 50152461 >>,
       << 101691136, 39005267, 116269254, 117234749, 5679986, 25043563, 54127215, 105852021, 30746470, 96787641, 90697751, 49532732, 45624728, 72943202, 91695323, 25092717, 39437611, 25725787, 128744117, 116161152, 122330459, 97877780, 3122454, 89746613, 11355740, 63059790, 50636474, 41302750, 55189205, 106313026, 37552461, 115841198, 39003774, 68851029, 77270408, 128845220, 109350126, 71183035, 67808988, 122980274, 123218778, 3018823, 103621038, 30315274, 98083641, 14625059, 49442025, 32405983, 74637179, 93604271 >>,
       << 67239032, 69625031, 23951774, 111456499, 131842066, 36968017, 44500052, 97374245, 130523535, 18019246, 62502873, 81885596, 111636046, 93575335, 8258427, 90419501, 92376331, 45624499, 5038665, 38882364, 92184420, 85776038, 7720663, 133295118, 114483076, 39107858, 32053489, 27466298, 123008656, 29008943, 28043072, 130155211, 102682793, 110587028, 47655811, 26082385, 111202820, 70627050, 34590202, 78802121, 42288490, 118578711, 95144002, 16398778, 52978421, 97771040, 29780071, 108274111, 18980544, 108172508 >>,
       << 13713785, 12087330, 12693626, 95469812, 80511200, 61034694, 70626900, 62605861, 96804767, 117923230, 105679426, 16613309, 73065167, 6486787, 81397212, 130941508, 26658175, 32359400, 79633754, 12270008, 84674420, 91104707, 26573788, 66113110, 29096022, 18080062, 54357442, 86440006, 43355032, 134143046, 30295304, 5262830, 118431411, 54579226, 114731130, 4665068, 97087845, 10313372, 128340413, 11256208, 123229375, 100668991, 82124494, 102187148, 67764711, 66661435, 101790503, 129077320, 43948395, 133066402 >>,
       << 52256420, 12791995, 61970086, 128948331, 67200602, 115209606, 54653122, 104543979, 74161981, 96675159, 115966247, 70393718, 119698577, 1125006, 1432363, 122340922, 24807303, 28011716, 110105360, 3566065, 133850388, 108808592, 3945762, 78663706, 14327177, 44907705, 104506354, 55703402, 15034348, 73784912, 17167388, 112420333, 80154379, 70312606, 124061000, 1760963, 32800911, 92395040, 50639157, 44808851, 63387410, 85474336, 94333400, 66753409, 35418333, 97879775, 38070748, 110466682, 131399389, 80003444 >>,
       << 16065988, 128898487, 97278007, 121861220, 55768929, 123033649, 412599, 118417787, 83357007, 91284262, 28682565, 52581326, 49379352, 81838269, 106311518, 46411493, 17975283, 118901330, 7777252, 10234362, 41772295, 81026089, 9517739, 108516860, 16532086, 116882380, 70593346, 85803846, 103598290, 77178979, 38498499, 14610423, 72374135, 39224257, 30312280, 31051205, 53284724, 71120433, 64068414, 46030008, 112483211, 3540146, 78726359, 18695677, 101538554, 133806067, 54664065, 26132987, 22897636, 109380256 >>,
       << 97033250, 21163196, 126379431, 28935409, 81412223, 80794318, 67894385, 19848429, 9865211, 32231365, 60571378, 36912514, 44988610, 45324613, 56139112, 10300489, 12378195, 34245294, 125329545, 4896647, 93337300, 100128528, 115061808, 98076549, 39453084, 17455344, 69750301, 71954799, 54659891, 126254284, 100280147, 5751690, 111344755, 49235889, 84621319, 2852691, 104423867, 106304760, 45297384, 31896662, 66085524, 125573077, 53082648, 57535049, 58434539, 129692964, 106130240, 99825394, 6222119, 69704534 >>,
       << 93105003, 12882933, 15638062, 100172450, 17285424, 57246006, 104731000, 113620269, 2411735, 126009672, 5658420, 126681128, 25895776, 117417572, 132910214, 7433978, 69827653, 118774278, 27270654, 48495831, 52424067, 53395880, 118720895, 81527526, 11862128, 109813227, 116935208, 102372718, 3660053, 51846177, 20668431, 91926808, 61153456, 9754865, 43000435, 126206169, 100013856, 28568706, 13414490, 127880865, 23556305, 103024808, 29340542, 34094915, 120459555, 45705619, 47754042, 6986310, 109709259, 57685899 >>,
       << 68326999, 73858860, 24616054, 58551203, 76778111, 14599356, 65147422, 84071070, 113740359, 65131857, 56971876, 102415103, 75345921, 86456474, 121120475, 19138883, 83373189, 28300963, 132059490, 70396142, 111587483, 35404362, 38976938, 100618110, 129268994, 5414590, 15546247, 32494127, 40803020, 120307469, 74427853, 665587, 106543558, 70841442, 132224178, 60053039, 104722478, 26047525, 45984239, 40055973, 31866734, 64006673, 115807576, 89537557, 122503778, 73858433, 98872578, 119953723, 70948559, 18320085 >>,
       << 54687986, 6190199, 28448890, 31373052, 86588631, 50238044, 82477940, 97154487, 16661403, 7167272, 13753926, 89526680, 49736100, 60603852, 92758915, 93142697, 2423190, 81293269, 110361448, 6374169, 68102004, 49424714, 133303772, 75760777, 77959511, 94965380, 8702667, 107815292, 38835846, 38354650, 77052719, 24397834, 125488421, 2117054, 95919070, 133595430, 60815117, 133129772, 34258271, 78235393, 108357307, 22226595, 54070291, 101497957, 80242117, 94779410, 76878220, 83721739, 126512415, 84015259 >>,
       << 56470487, 102895134, 83816810, 76868540, 108457327, 50448148, 116713050, 104759445, 88150338, 39783700, 111438588, 74181946, 86134135, 81156098, 101937645, 80572336, 100128976, 97946480, 90718918, 91037105, 102151018, 131699232, 114649073, 61230430, 12033247, 119339878, 70090164, 39667716, 19485870, 71841998, 105163718, 49147913, 77749589, 51552873, 85466762, 127766572, 76337836, 33312949, 19720859, 44339337, 75878633, 13816907, 39514706, 2855262, 103656284, 67167702, 119096545, 41552908, 76434517, 83051731 >>,
       << 106340511, 130842654, 115002398, 26098769, 127948214, 23504699, 119526212, 25551798, 14543144, 24824185, 112633688, 104734786, 108324096, 109973395, 29934299, 39517947, 104760710, 18963920, 104189031, 130071748, 57696791, 54252439, 75687408, 75141628, 128933311, 125833017, 7351443, 54736553, 83512668, 93909136, 3081728, 132878590, 74881217, 63481972, 20803857, 53417821, 85931487, 15799663, 61361861, 102514375, 56063235, 130505608, 119669532, 4096369, 86159185, 59322805, 23342425, 100566197, 28978527, 41540622 >>,
       << 75384682, 126571546, 133505283, 97227493, 30616453, 69792383, 81434066, 29581231, 43725194, 89945548, 88925059, 80852772, 121850908, 48560204, 87266969, 32743997, 120597567, 127515612, 69821206, 18592250, 88215833, 120402128, 75316719, 101604459, 2348712, 112202161, 109893849, 131659091, 38211978, 111134105, 412348, 120426963, 46262553, 128851775, 54689989, 119089070, 89064587, 15811556, 131747860, 19120157, 121097744, 93300520, 76003182, 81873755, 58270386, 45813843, 4018464, 73719381, 107989605, 113947056 >>,
       << 105236906, 19762536, 54523392, 79257196, 102422255, 48146877, 73081609, 90805566, 19677965, 58270032, 88706994, 35707089, 12549007, 105173125, 73902153, 51329407, 76895118, 50774044, 46267189, 54616541, 84604525, 9771608, 123944893, 111295312, 29075869, 2004286, 75402722, 64683425, 108547532, 57170552, 13187264, 90195872, 111483148, 92029212, 118418540, 19557879, 102876681, 25539836, 108344907, 70934691, 42103387, 76706373, 45211575, 131597007, 123993825, 100719906, 16131083, 33813544, 113186862, 25775293 >>,
       << 104316516, 35842449, 53508647, 72674616, 19992004, 32292892, 78867841, 106875370, 103769745, 41707179, 114053331, 68321018, 36493995, 84025838, 120660919, 5444149, 114707426, 3953262, 111740279, 128744670, 22044652, 64212086, 100976405, 30029161, 131289, 874204, 89619369, 114381388, 68974303, 58283799, 80583309, 52435239, 121780981, 118814067, 52249121, 8402695, 134008817, 7402229, 15674475, 111898698, 131486470, 102442212, 51967417, 67632223, 27119856, 10073945, 10900372, 89699727, 25948701, 109295341 >>,
       << 82126467, 44941595, 110536424, 130123088, 110504781, 114682306, 3420583, 6431196, 126881859, 8888224, 50357342, 70841778, 7514347, 82150325, 87011366, 37479908, 10751435, 39330435, 84538649, 81407573, 9819744, 115136908, 99016491, 43136609, 7291181, 60819005, 54732787, 103838125, 23781932, 115816275, 84495057, 70035846, 26293187, 117016471, 78176784, 127429493, 59500546, 86177608, 55181600, 84151519, 19280124, 6751040, 97975771, 49440584, 29596454, 85564188, 37554150, 36255095, 2257260, 120221298 >>,
       << 66473852, 59142981, 59417509, 80374368, 37782418, 52443962, 21785186, 7809055, 95873785, 126558047, 60267126, 118841143, 18754310, 97444917, 54119168, 102403610, 115832087, 55250204, 90112900, 17452167, 80035643, 18413747, 46244783, 2612210, 74553181, 107195270, 12357361, 100108039, 117098034, 66047752, 97306264, 83938382, 110864652, 63637906, 123859998, 51603116, 123895050, 6401529, 131799454, 21605270, 75889571, 93855815, 125156040, 80771986, 8964953, 103228617, 104386479, 35372528, 3051449, 53321871 >>,
       << 125704898, 70327598, 90547630, 71609993, 35272295, 9013806, 130231055, 26208498, 26634065, 27201429, 60916922, 31153693, 11970455, 125794450, 17806084, 128069649, 125008596, 42171230, 48033697, 95954791, 124904500, 22984583, 27195004, 46270369, 122919196, 128985144, 53863225, 14591250, 62705554, 73106438, 124442222, 10623444, 62311256, 1428262, 27503499, 114024064, 133695736, 120677029, 121821099, 22048331, 91004008, 13644112, 10548786, 80923515, 21928870, 62336, 50979859, 15115604, 29376377, 100708618 >>,
       << 56626400, 31940192, 110752089, 68893211, 131472198, 89876603, 42648480, 17764558, 62777350, 66538181, 73298017, 76965229, 131054633, 46300448, 50463330, 16275807, 25553337, 29293518, 60061004, 9977213, 119641755, 89640817, 73174001, 39826179, 41218029, 35513832, 79531389, 6601392, 97440277, 129015158, 22641668, 116039007, 77686096, 43355368, 6413678, 18904718, 115980602, 53094995, 39462227, 68487095, 5771530, 130604394, 109717801, 12685755, 57869281, 36962459, 38219923, 133537090, 7100134, 31743500 >>,
       << 60631334, 27499912, 91543032, 33571334, 111669206, 13638593, 53466917, 63135754, 71696670, 14533446, 124511632, 19028482, 121472787, 62170333, 99444123, 106157743, 67063002, 89560316, 68906145, 22859720, 122832109, 25051514, 10090296, 1880862, 111931929, 21673067, 85773512, 12384073, 117867523, 65978123, 120026381, 110143747, 79053312, 71973450, 111041384, 24480241, 13735568, 84324385, 25955748, 35044029, 69715974, 124901076, 130684901, 56353692, 23034395, 76842305, 73299666, 45652489, 98589359, 111366811 >>,
       << 65941954, 105279653, 98143831, 92177948, 81402258, 58778104, 31388763, 101720724, 57179503, 116310872, 110908635, 31088690, 117404709, 110400003, 72391660, 32618852, 117661040, 15433087, 113826843, 69162437, 23785610, 72948912, 91473641, 133669457, 42740512, 54817898, 3913380, 45428845, 30723550, 76829631, 100699699, 60350097, 128817797, 99158107, 3076093, 66145997, 105442478, 94330812, 79002110, 73094754, 96527098, 85449737, 57537690, 54060403, 91368088, 124433982, 133475194, 15971233, 60877634, 64199191 >>,
       << 93967381, 8199219, 54044021, 115548583, 125922318, 66634324, 31668661, 120837900, 54369546, 69562011, 104674508, 108394997, 19668825, 115440809, 106354666, 2075251, 49001054, 102614289, 302186, 50481546, 72560875, 19277622, 11321601, 88437475, 112834248, 22943214, 24219451, 30052451, 84446429, 46882764, 44008731, 90447050, 21369764, 11568108, 133164226, 52795451, 91099896, 117232568, 88523993, 49129124, 1990737, 104325638, 44969786, 72353357, 132724337, 60033217, 125769898, 14079562, 92173688, 35555431 >>,
       << 54349413, 76427842, 20178362, 98313096, 9779395, 70174055, 87416232, 103359757, 125771018, 23382705, 9764779, 131761817, 76587087, 18621916, 43941883, 76217823, 53409319, 130045776, 61300688, 101329420, 79748303, 128163329, 5292851, 74829928, 79273380, 71707096, 103692709, 91517968, 36039806, 31570584, 57708398, 83676297, 81733397, 72726901, 38762628, 105139367, 73380336, 116511410, 2169801, 127921159, 21251627, 17028750, 119745910, 123290527, 5071837, 114202168, 44410181, 107157434, 4551461, 127694744 >>,
       << 81224076, 92850920, 97930192, 30843108, 88894223, 112979636, 72783901, 58136525, 130863537, 96527905, 80292116, 96200698, 92799000, 33657954, 68096871, 130065785, 39173807, 87022836, 17446717, 40015306, 118445959, 81281938, 45328139, 113566388, 98707033, 81836571, 68747076, 74294997, 84492211, 8860687, 86875210, 11276185, 38059575, 46543939, 60648113, 84029135, 73241592, 68120181, 61456344, 129175166, 108751174, 100820919, 122529876, 4804924, 93318950, 87890180, 59244451, 12303163, 47907389, 123970119 >>,
       << 24030650, 31578870, 120151180, 73010270, 53908997, 60073059, 52411510, 64102579, 26305164, 72379607, 103227834, 130474339, 88144370, 25066642, 3518905, 125346521, 82622134, 60667274, 36896459, 51062905, 104723104, 10467889, 129321953, 82412935, 8520287, 96557404, 84264437, 89079258, 130641816, 61928861, 66424119, 81930786, 71430313, 66098362, 51603280, 72742892, 20121529, 115027782, 83703711, 77120547, 122851939, 58581283, 67888064, 66736554, 96440771, 113482603, 20658164, 112346278, 111949409, 17379520 >>,
       << 42965279, 69272032, 77417359, 26327288, 66291096, 133438178, 100631685, 5124422, 106102873, 86343023, 71422711, 42715309, 91477801, 70382000, 87862, 53498334, 86375746, 24996331, 91581953, 83912944, 106354830, 31874244, 49483515, 6962144, 93348648, 36148486, 118517000, 4012808, 89062872, 120086846, 116472469, 48366333, 101410505, 133475910, 52365641, 51128792, 97668710, 83153138, 44543767, 92021340, 61288572, 76395856, 5142659, 4111644, 90330040, 16753792, 22537795, 37526885, 120764649, 72715151 >>,
       << 23609865, 104472271, 100189882, 45987219, 114418143, 50268472, 36013628, 33716263, 24502256, 125390343, 70274372, 52770835, 61832203, 79670961, 52890778, 26321069, 18838016, 47381532, 110926713, 109417859, 82059030, 39482007, 24922740, 85671339, 33101419, 85087196, 127726939, 17864098, 91741251, 71498200, 99235289, 77316551, 113647937, 36138454, 105969606, 52530853, 111442102, 116282598, 29822796, 116271761, 126245896, 26114449, 73307318, 128912731, 120999682, 123986469, 76852328, 125431341, 13838198, 45659001 >>,
       << 54344900, 22068284, 34994374, 10684663, 91867908, 91339121, 122943053, 44007398, 25045268, 71543451, 102206559, 45350551, 96961683, 132792488, 125112546, 64867809, 23877142, 122668808, 126839026, 46083747, 52220968, 22505538, 130007048, 77234743, 23066281, 54177174, 126978659, 79070916, 29749644, 116545856, 93227322, 29832632, 46080307, 71100622, 81595999, 104915659, 92132078, 49667523, 13719833, 30004863, 115487670, 133067384, 126108217, 67710326, 14255348, 75153004, 95377169, 52508567, 49557403, 49097411 >>,
       << 3443928, 127725395, 86680604, 65717309, 69650275, 35279042, 128346907, 51845501, 127450077, 114101477, 74985418, 43537057, 2098146, 81857225, 43008918, 101466978, 65467163, 103750738, 91281888, 38561390, 110711102, 35125720, 30092515, 1020367, 26059652, 41153750, 84305879, 83641843, 16103144, 117809619, 90654238, 119972815, 68761110, 110639508, 77438875, 10000514, 124328380, 111722450, 15193029, 122658950, 64587898, 80396559, 64994812, 22121080, 6293447, 26729167, 70000261, 111806659, 94581369, 44777065 >>,
       << 78111625, 31677801, 36122524, 106495257, 5058739, 11544089, 112549996, 48885275, 28210669, 52953021, 41282753, 11838977, 43653777, 39413034, 60891460, 14431443, 43858035, 111078503, 43992027, 27151869, 14391123, 29071005, 97835660, 23288072, 49138468, 83131712, 118930179, 28785353, 109728202, 56302151, 63868261, 97689254, 113531475, 127590423, 70400524, 13069839, 31963795, 107213622, 57210317, 60039194, 114294358, 42590001, 6146121, 2155101, 128822203, 83318446, 35668954, 127873336, 113629410, 20090581 >>,
       << 93566656, 115998856, 86343880, 107693960, 14643784, 38047880, 127558755, 103315354, 106361411, 11695334, 4723415, 104197746, 47494219, 23800125, 61288240, 51396315, 82640373, 71029647, 127235070, 133894732, 16376401, 93426124, 79421300, 70292642, 63469914, 75361321, 8072166, 81211357, 98314724, 112060012, 17667669, 101705470, 64157929, 902819, 36464544, 48450800, 17418225, 31542499, 113374008, 69022241, 70703629, 74867294, 114951228, 102943108, 46750216, 53981512, 21849239, 119478642, 18367664, 125516926 >>,
       << 44411736, 74813845, 108595279, 122526404, 108634720, 104134049, 57465557, 55845729, 7834175, 128251221, 43547635, 115968736, 103740311, 78325053, 67973150, 55769166, 106340114, 101239089, 60368405, 72331933, 59351279, 37518966, 40084147, 115775230, 22493530, 18551448, 66130666, 94771359, 45350898, 68479007, 45269670, 131956686, 99428744, 119879377, 89833906, 37529122, 72658694, 84848743, 45571777, 98366535, 78963137, 56635132, 129457750, 48816297, 106918170, 116339079, 42590946, 105710927, 95653773, 112954464 >>,
       << 82362416, 38659084, 23860571, 67381482, 17300241, 40874896, 128581270, 82461026, 122203463, 15925976, 129873690, 11137101, 109040882, 93037076, 57459585, 132256282, 44599850, 3408559, 18270424, 125168033, 114221050, 839874, 118445802, 5288472, 5754576, 20930333, 107591815, 41183538, 49996586, 85787279, 30812818, 78696058, 86884510, 117897889, 31150534, 9764093, 128642501, 31731923, 17599688, 86255089, 117758840, 110839340, 118525536, 133036629, 111008291, 15533493, 107281854, 43752119, 116566096, 42597608 >>,
       << 9293581, 27963448, 747553, 43483402, 45624601, 64495536, 4535123, 70033053, 27392666, 85015904, 84960511, 57134182, 74564128, 99073502, 24447629, 91535811, 13471350, 38105685, 40703194, 38166551, 114235677, 69767584, 70436375, 82800066, 51414457, 51784641, 78709772, 83209926, 133560117, 96198879, 65851164, 19337067, 67053091, 129264459, 114130976, 92658638, 132937699, 125715454, 29807813, 56783807, 60264344, 120644123, 85539887, 105874654, 59198584, 96550969, 127434029, 39281259, 86321540, 55469429 >>,
       << 20093022, 100247236, 854347, 17412946, 49163162, 113543265, 69164276, 132176272, 99153139, 94446909, 22509513, 123378452, 49504107, 38643064, 28071746, 127466999, 128673407, 9340643, 70575394, 29318337, 108096912, 109195147, 23202743, 94967873, 72929177, 108411571, 109569451, 14208449, 98924663, 17948371, 25558238, 112251475, 8444387, 16951084, 26867851, 81413687, 19221670, 117932288, 112899529, 86590284, 950836, 84142699, 40918884, 83760970, 12429110, 7916764, 50621065, 99092472, 1089156, 118847400 >>,
       << 12059594, 69738269, 32849585, 55749749, 35217439, 65704658, 21495076, 27374649, 96307203, 74188311, 62167784, 46306069, 3251476, 71472700, 22153862, 102936275, 63305233, 54227365, 69616225, 94780089, 11689275, 89275902, 61206971, 23748640, 105619010, 24248472, 120776042, 46987976, 64435190, 62312114, 43063605, 34942332, 100237368, 130633581, 48746187, 75435906, 84253102, 35652297, 64939013, 18208868, 50856386, 20770855, 115794698, 76667691, 126451585, 4388084, 43679044, 19118747, 83028632, 12111010 >>,
       << 68575617, 109611323, 104088268, 114739939, 89896917, 99576312, 60877575, 51326574, 120749174, 88272028, 74329746, 32358410, 97919383, 13723755, 52679863, 7126486, 73735740, 116639280, 24380986, 96407129, 58993592, 128896073, 16230918, 86626846, 62917577, 23561787, 8498926, 61359880, 92272385, 28866008, 26618219, 59444804, 105657759, 96260196, 97751235, 29161475, 124258098, 75763872, 87965773, 78189131, 129737570, 24984420, 128404892, 112455801, 124297311, 3928091, 43731170, 24399341, 23158445, 20829470 >>,
       << 77396393, 128203807, 76084622, 122090019, 82518294, 28735813, 99454608, 55289687, 118320807, 22977078, 128223829, 13530495, 98355439, 57324398, 107294049, 43883117, 88214212, 114604150, 78541092, 10115033, 85947330, 40694620, 31711899, 74240710, 73908190, 19310301, 31736415, 120353917, 22355818, 43634520, 87687081, 48813953, 94283960, 129406224, 32819076, 105944990, 77524851, 114849972, 120060663, 72499525, 27271231, 42977013, 74617558, 126123879, 41347303, 35806372, 56086286, 16395574, 65646323, 97279138 >>,
       << 86517618, 62146491, 98933891, 99812356, 118447996, 66183001, 29375700, 21684442, 108480382, 52758546, 38902041, 33169938, 126419456, 2625340, 76644190, 44644060, 35035917, 116156474, 34077377, 77525357, 108818829, 127919884, 104009472, 66856183, 82035598, 96031561, 97311849, 15633534, 24220993, 119892925, 59972067, 81014816, 110712048, 113809099, 115509687, 78150391, 58894202, 360788, 25071163, 76644122, 23398252, 59074819, 9379467, 21755294, 7440698, 44440795, 33083240, 89485713, 120939916, 79979778 >>,
       << 62882483, 101971332, 70732751, 122227183, 66800285, 96470954, 15101251, 28754429, 65810642, 95015232, 120176234, 109723025, 43872657, 18559005, 77789716, 127672730, 74935401, 126943702, 122806639, 69651607, 32618558, 17538006, 20030597, 3768615, 109027847, 90626578, 101032257, 130471070, 13228017, 18081314, 106466015, 48896494, 53302112, 97871981, 106110622, 97456742, 115826968, 7286763, 73548560, 25292050, 23255413, 5054251, 118564113, 5968073, 35609515, 102139256, 74384809, 65625144, 81413784, 108828140 >>,
       << 126128007, 92075313, 118759257, 62492044, 69608534, 67573352, 67902814, 115913521, 76359325, 58837018, 46883986, 91750876, 28264338, 93055782, 99318584, 96911169, 94617175, 117912326, 49954883, 89569919, 69032815, 47964620, 24784136, 31782201, 85554021, 71805084, 52928192, 124057792, 8171310, 107198632, 112454920, 123822218, 100744744, 106077109, 133888314, 109200965, 103155543, 5427468, 27111336, 2326935, 37330001, 131263575, 40547649, 31713949, 123821848, 52056495, 86625040, 11007179, 109343522, 76861917 >>,
       << 114781071, 106602253, 77021154, 43048207, 14694269, 61768981, 8913189, 46558447, 112096509, 117014401, 21878126, 128056355, 28192623, 117038746, 97704839, 76573377, 120599961, 124626172, 116446292, 12558651, 3065610, 104548205, 20027348, 86290143, 77468921, 22478794, 104585206, 124401284, 97947647, 126409952, 78769634, 100566428, 46740994, 89121694, 3225245, 12411792, 40639874, 26687785, 64151878, 37203031, 87745470, 116481788, 98639577, 68636393, 25884060, 7608620, 82152010, 110494633, 26351317, 122360188 >>,
       << 659341, 77383120, 55778794, 133167934, 63095299, 11092802, 28241705, 92177182, 79656203, 67090777, 12472749, 81697955, 129844190, 15457874, 19486273, 53394430, 6498347, 84998837, 20257712, 98214551, 20372558, 15510146, 27816036, 21126481, 15848323, 116330650, 92178849, 124015504, 94006364, 128864319, 61786427, 55044235, 62619658, 101020295, 88608237, 18741499, 7181113, 15457307, 81314107, 103532455, 100129253, 90387279, 11977132, 15560384, 15127624, 51349294, 54048981, 14026495, 17381528, 122579075 >>,
       << 24254080, 5617162, 16234545, 82880515, 96861000, 4283875, 59927008, 18251835, 97039331, 46028484, 88814242, 99667355, 124222621, 71022010, 101999029, 58738639, 125144933, 33376439, 26568577, 124216223, 83614156, 100230187, 97936117, 28734569, 4969146, 39407965, 76756950, 25829473, 57908044, 51040801, 45273409, 27971230, 71960628, 1799734, 88628961, 24003188, 61115136, 87325613, 117691836, 89274089, 108885369, 40461969, 104240031, 69926458, 13908925, 20083236, 102590672, 105361052, 37855437, 23640730 >>,
       << 13483335, 12093079, 38178291, 3048008, 106010127, 74945381, 91676307, 52986971, 83932840, 70439662, 18872517, 123739214, 45252261, 115406287, 1173352, 77367064, 89244519, 43840780, 131799640, 18070303, 20149849, 80037153, 38481962, 50409083, 17288238, 2297122, 112741734, 110493159, 79376527, 25991785, 94036388, 113665382, 49221290, 133488534, 129879319, 46972893, 96848050, 51069257, 112695386, 106162949, 8860728, 108778718, 99604593, 98781999, 87933602, 165903, 108093878, 124916540, 28805562, 96056048 >>,
       << 89516588, 76352450, 80020978, 46337164, 17207159, 104584989, 93222343, 78310524, 66646894, 110527446, 2293584, 104201676, 13041676, 30717503, 130041611, 60899191, 15924978, 19042679, 36971875, 25602895, 56889810, 125516238, 48186321, 73778810, 43840736, 72429164, 49216380, 51991753, 41197481, 102350698, 124019871, 17493080, 28455850, 113594115, 3629536, 34810342, 126367690, 10059485, 119199072, 99676178, 104491328, 20960858, 3442087, 18904006, 132888972, 64673141, 124847348, 7222980, 56701593, 16523927 >>,
       << 48563004, 82443394, 21737079, 64331966, 30978363, 74830195, 66418594, 37303237, 8094532, 22327365, 80405385, 83137786, 8256881, 59473831, 96481203, 96844465, 129385087, 11458649, 57877622, 57203444, 115690888, 79297534, 3003845, 55343491, 30628653, 17446641, 16976230, 115428709, 37768705, 71275948, 87254175, 126856212, 120946279, 14366622, 45954851, 42873862, 35039128, 127898013, 115971522, 21286722, 111101091, 117921975, 91865148, 84790000, 86173282, 1017031, 29774445, 94113605, 95339109, 116293530 >>,
       << 38313228, 4346370, 33513823, 7871573, 16736237, 2262929, 82696535, 48746103, 121867080, 121479964, 54430657, 128391211, 66623939, 75756281, 122702726, 103134578, 85877694, 60595763, 49468104, 56799483, 119862139, 105607819, 41373866, 83605083, 8708366, 49779745, 59433256, 79204954, 90874591, 104472438, 133954599, 46712081, 49924941, 38257905, 57065365, 113213366, 23150209, 126939121, 33030652, 33726394, 64366996, 112954786, 14284125, 18368925, 112309395, 108728145, 33702011, 61974482, 58275307, 366686 >>,
       << 14839143, 5922169, 74482974, 7972328, 103234488, 15906087, 107006298, 105173093, 69012477, 16460035, 5198305, 27812524, 3576286, 108192473, 122335148, 98875926, 106371565, 55374574, 74335596, 30850070, 13472398, 60307484, 53504332, 37066908, 102467751, 126595453, 12077003, 65630349, 21726408, 56882181, 69293917, 5720821, 73064458, 1762146, 69370691, 13076608, 109029914, 97544487, 89951979, 49156422, 60097492, 14415273, 19881959, 79557206, 4091231, 116559049, 96608929, 14519890, 130755067, 45998964 >>,
       << 94530052, 8160765, 62203922, 11332672, 26237653, 68231337, 5697626, 54839596, 60795682, 13645439, 33085073, 7232064, 62001364, 95646405, 30761227, 44578981, 10698169, 130026821, 6415390, 109118630, 116800182, 38617836, 48468857, 130187071, 71228560, 128028615, 36983398, 66039568, 40297070, 26775702, 107511976, 53769921, 23485502, 15328450, 94497970, 26380976, 3327277, 2339362, 75850627, 58397609, 24390832, 46833070, 71362450, 115347324, 70883378, 90780325, 47692057, 59971142, 57164456, 94409791 >>,
       << 57644489, 80015279, 34059178, 66595366, 3984125, 27455833, 16172749, 75330755, 733725, 44796872, 26704602, 134185345, 90066909, 107864536, 117060420, 104287822, 26892617, 81465153, 54033353, 21016411, 110405549, 108698380, 123407323, 125995608, 58985501, 123744618, 34120982, 112518843, 58716883, 119404990, 52831328, 58627491, 110487104, 19986839, 10594263, 47410229, 78537126, 8599940, 70412756, 32285783, 111493732, 18551845, 93882247, 114588334, 63753876, 2547533, 4306326, 7728375, 131509592, 35702503 >>,
       << 54087642, 55674053, 57118172, 13444210, 41688198, 129530972, 44336376, 84132724, 79096412, 3346501, 101347276, 9101470, 106716971, 15633618, 6788404, 59986114, 78989050, 65183333, 89461018, 62727812, 16686406, 122665527, 33865364, 5013131, 2637090, 100532120, 87926462, 35258217, 78593150, 31668937, 72998067, 103115815, 126362850, 74092834, 9119383, 110132013, 95952624, 75553948, 101641371, 93943535, 115148115, 94960037, 84701395, 93474334, 36179228, 77063639, 406262, 42284889, 33459207, 89618476 >>,
       << 133880170, 94989766, 8828684, 42502178, 105288129, 23101632, 5676997, 34295540, 81947761, 81718358, 67355292, 5086557, 108425367, 79140910, 39947069, 86783043, 111418290, 80253253, 110288272, 66693570, 124723303, 122483867, 53016030, 105136217, 81350587, 71026399, 132835002, 66145774, 85749236, 30021918, 86976700, 8740077, 26664201, 62176061, 79231027, 58923910, 91960043, 16143430, 109208308, 55643484, 51300867, 80931542, 74697804, 100650781, 39274257, 13697646, 55148347, 121879864, 51271711, 128238603 >>,
       << 13364967, 19923261, 29029091, 65089615, 38474186, 127848609, 6590650, 65098469, 64409997, 76640725, 35725286, 33318451, 31312845, 111523719, 23380113, 102300095, 43260996, 58638880, 24563902, 28311272, 98914165, 92460469, 129794028, 69174221, 89889840, 79319330, 79875834, 38803134, 78230673, 76297749, 122402492, 15292558, 133636641, 81946119, 59870230, 108315506, 1967696, 8991996, 95494153, 110400251, 122281858, 35448743, 22165081, 118571295, 57819252, 113832944, 132613174, 128279183, 88626958, 18732310 >>,
       << 3530859, 28768529, 62715713, 6842526, 69198801, 61839716, 110033535, 121343088, 72551437, 113313435, 23022123, 14185631, 11948440, 55128847, 7371568, 112880792, 21254514, 88685162, 89302836, 88484896, 3681512, 84667848, 107810323, 88642773, 84257872, 34828357, 12761159, 114033980, 124941784, 121055851, 125696611, 73249011, 126663169, 130625993, 107264907, 11232457, 31569450, 49576939, 91851386, 94196282, 100787537, 82572018, 76713815, 68847686, 79923159, 67707040, 118776108, 133285089, 104695119, 78478843 >>,
       << 60207423, 120907686, 19677109, 120453275, 15026574, 11207286, 130998019, 59653983, 129187144, 3008243, 98107351, 112243639, 72142272, 67598694, 84015019, 78872698, 129464030, 38891821, 124527660, 88783194, 68211798, 4098443, 109430245, 110105318, 114273052, 9477031, 130259406, 73365847, 124564217, 53553095, 120012605, 34901404, 40817500, 71820436, 18554345, 21570979, 101714579, 16138727, 60571298, 127077764, 118135401, 118573491, 47788337, 70054445, 68873201, 98978268, 124433563, 31291228, 76650083, 131916699 >>,
       << 59103258, 130529311, 68027985, 50170490, 58742783, 125158967, 1548070, 72356744, 23162629, 8283177, 108967385, 3448448, 34829591, 72490321, 6284386, 56208717, 63660493, 42976267, 63521929, 89467394, 12575807, 111241080, 113090867, 24136369, 113027267, 25355653, 51036278, 75622173, 11425691, 40205681, 79950868, 54120548, 12281419, 102624156, 86966644, 89655261, 11278653, 125379312, 21183715, 68571606, 119586646, 67066497, 90508444, 109674963, 79246165, 36294636, 106228404, 22192825, 80517444, 89981221 >>,
       << 56837787, 75120173, 121307542, 67737903, 20191314, 62191000, 97469644, 100952744, 52627379, 77657839, 126603577, 134089971, 89962943, 124851343, 113807557, 64040071, 89198877, 85280411, 6714292, 35854181, 5789440, 79032992, 47599142, 30781126, 95748511, 15826147, 34715608, 121429665, 106095202, 11869810, 106047654, 77977109, 56844267, 15098554, 47594954, 57331056, 5908424, 66351268, 120740521, 74067785, 86211645, 33300964, 23760468, 65432053, 38133600, 90488579, 119958813, 108512338, 92735114, 74250773 >>,
       << 74918674, 30082312, 44735696, 97021339, 50652004, 47518791, 14362489, 104559728, 124958069, 61772299, 77985029, 107087517, 115292131, 108019978, 88399977, 89929699, 86057307, 53439886, 24390750, 39305644, 85899161, 6062289, 118751479, 81167742, 124316096, 56590557, 94222325, 85852907, 37988983, 112083426, 81849299, 50508091, 51503459, 73390044, 33373898, 96684402, 35545064, 125568268, 82114934, 57620777, 3438797, 35654227, 60808652, 68679294, 41928769, 20359406, 8691930, 59585481, 1558972, 20528501 >>,
       << 75273750, 45367996, 13718350, 51799347, 19104510, 21448964, 131697962, 125281189, 47723980, 77845932, 102012079, 32636120, 110799392, 84599602, 54577083, 36939031, 72829177, 73378429, 16784960, 46077, 67448816, 129877295, 77023573, 128869699, 105943978, 104510684, 29796682, 35690939, 71755760, 53704612, 71498245, 93507857, 67351635, 30595207, 82420455, 5514729, 118156466, 58506613, 18449486, 132206131, 34699521, 53041305, 64360568, 20312335, 132955436, 132543101, 101051893, 70760834, 59750285, 80791349 >>,
       << 77275890, 9146919, 57031050, 2960149, 83649730, 111806135, 8510743, 11969785, 40251854, 9912388, 28783232, 134044693, 111359946, 15159382, 78718420, 120267100, 101561024, 133442087, 97277097, 33324269, 48016004, 88742229, 101400292, 132491121, 80489037, 85912365, 109369110, 21910386, 134027002, 110158993, 117189900, 27457064, 95930077, 54677550, 14490208, 31225607, 28634519, 63768236, 96598438, 54711507, 120050036, 56964, 45866092, 25042392, 131669285, 33369932, 5877509, 123258936, 34160093, 43113090 >>,
       << 74664486, 68591106, 12669557, 53768735, 44620779, 104657461, 111408604, 93996935, 2943511, 122139442, 22222880, 48360819, 121658851, 128332047, 37368451, 100727245, 40545587, 66517227, 19413864, 35189571, 16719412, 82715650, 13067632, 57568362, 42665624, 87279876, 4236689, 117177701, 25937389, 93551709, 38809347, 36721983, 3792316, 105723031, 76130890, 55887036, 53964216, 113431152, 8479821, 63088534, 101415653, 99366157, 64993537, 120336353, 122346715, 125004753, 100330678, 8768924, 103669755, 69227788 >>,
       << 17015758, 93978529, 34721033, 79798773, 72241369, 76938242, 101067044, 73366250, 84622522, 5614448, 73377419, 72617403, 128369338, 121809716, 97909922, 382729, 116272650, 53781664, 61971688, 111847382, 73974497, 19523336, 13005444, 36439924, 10686342, 59438450, 36355566, 55525803, 69386752, 113788568, 133583738, 14037331, 105666512, 30396847, 112707274, 43815113, 83556913, 24791083, 123361758, 52951530, 84099499, 50537237, 127129009, 35571248, 73271473, 56664725, 82740956, 89008895, 72263328, 82866918 >>,
       << 108013910, 122827752, 33416963, 93802185, 130896619, 78083792, 53127076, 93479868, 83019717, 73759636, 59102324, 41824362, 124864066, 68011234, 51158753, 76131167, 41922948, 92434291, 119792435, 116330833, 12119306, 43933035, 45672278, 78967294, 35060203, 131385222, 42084729, 107854586, 88571165, 6617005, 14850652, 16658677, 82369031, 18088212, 96956415, 80410932, 91204039, 24237228, 7863558, 113389617, 92268329, 104830219, 64123420, 133504229, 48495022, 33070778, 93548533, 124654490, 51202708, 119340205 >>,
       << 93250004, 5971136, 47145459, 15218749, 9446734, 63683739, 10550362, 56704595, 91639308, 97737034, 8303664, 30476715, 111739482, 79994643, 72184638, 101026533, 103521112, 74522968, 108381339, 53000670, 27802066, 56539060, 42196444, 33360201, 55135245, 130978279, 95208234, 86921883, 16879629, 13422888, 69077540, 77748149, 34883904, 43976954, 49981121, 80462702, 7490874, 50866227, 65163798, 1030568, 6597033, 3325002, 79741086, 88055418, 87419677, 76826207, 40417354, 108312842, 18238410, 40092630 >>,
       << 71182754, 130362290, 77895123, 33583658, 24015248, 6302637, 39368389, 123548552, 50510897, 134035193, 50337643, 91591306, 116123018, 36771858, 105430324, 121202584, 99396289, 115637198, 74726038, 82327874, 58372365, 57893475, 66773782, 55091049, 6711201, 43872350, 105921667, 58492621, 35182600, 21720358, 1926705, 110084222, 106099512, 125009439, 41707096, 42244708, 56853378, 116122276, 48880421, 65770619, 101504344, 59471346, 45622852, 72144438, 119784438, 3917037, 76666528, 60481364, 105027631, 127908331 >>,
       << 41409041, 103079938, 42806362, 129487605, 29626238, 25808393, 104858874, 67970791, 108080788, 81686348, 3877729, 57062863, 17563172, 32550031, 115029602, 104989207, 49597432, 34640057, 107230564, 54282556, 117559381, 51171904, 105129942, 17556501, 114660624, 85031405, 24739730, 103404653, 56201522, 45165249, 94032728, 38814484, 7273581, 14549026, 53216038, 84909357, 44829000, 81020593, 81636610, 46576703, 30722721, 124198682, 7207367, 1228910, 93253477, 125079569, 90632876, 57109058, 21510288, 114833398 >>,
       << 25063557, 15893296, 23475742, 20422009, 39475088, 24299307, 129289114, 102278816, 107131503, 60656527, 57469612, 129430714, 118293359, 64205049, 93140342, 88133285, 63612281, 41690209, 53852997, 18030347, 102516696, 42413505, 82312126, 9037184, 52364176, 3724394, 13912513, 10611935, 23740098, 37705867, 95179289, 132002321, 13410324, 12388317, 49997347, 122234624, 130514957, 114324894, 67559901, 109425768, 128385336, 33715633, 71592930, 106955684, 69399893, 85821214, 52109351, 133328335, 8048851, 821316 >>,
       << 102071634, 121391512, 131456715, 72054847, 2015146, 14542202, 63697764, 79028730, 69292636, 131798926, 53161086, 64585618, 95424382, 66375258, 133095260, 75004808, 17160025, 26291079, 117389349, 10620936, 23204789, 77556314, 79929930, 118444265, 126402038, 48098925, 59604527, 124919822, 105440571, 120428920, 1828041, 124954740, 107631076, 36667896, 59876591, 18107315, 133441415, 96405684, 54834475, 106371350, 35315666, 114453066, 22026463, 85710642, 108983317, 57040947, 10219296, 19766881, 98038918, 14885782 >>,
       << 123416120, 22095445, 7176785, 27365779, 70969219, 33719321, 30710031, 98705832, 101968180, 118715304, 64252953, 45922639, 30598413, 57724859, 46401649, 93473828, 79019640, 97911326, 51790520, 116286021, 101006756, 71442747, 6455025, 61901789, 74371067, 47023772, 130688192, 109924451, 85303152, 22656439, 49458666, 131989857, 35531069, 127236795, 68995442, 23465074, 41575679, 17168689, 16563259, 90160641, 74825320, 93243219, 100821478, 31213772, 67573618, 43526658, 117930400, 33986317, 48590733, 106960242 >>,
       << 100988297, 131526428, 127510012, 36017965, 6328242, 4219205, 90707109, 126778408, 57611249, 34153671, 41003929, 87620185, 49315248, 38279828, 87537746, 62709751, 45437962, 99289915, 19547737, 116752019, 26415300, 113482423, 118118912, 10295008, 14952346, 18782925, 126763857, 25977719, 20691518, 125447238, 95687204, 132167617, 60055642, 38314592, 103314220, 72110743, 82513920, 102723536, 98848535, 98109429, 131150923, 65934922, 91559588, 126176069, 83321027, 98440627, 109467831, 131974863, 11390627, 60498656 >>,
       << 58839489, 120953041, 103824613, 53437980, 102563453, 27686424, 32600976, 89187418, 39388853, 86579145, 86102774, 91069173, 99624651, 22328144, 65670749, 22779572, 4121168, 25719895, 116448620, 111750221, 74502763, 72329391, 50936563, 91950283, 22778889, 110011258, 9767824, 120492522, 63717559, 47463440, 95860553, 1693235, 87919966, 72867071, 8157513, 107534722, 113654885, 9029034, 81435334, 105231821, 51945598, 129159893, 33143453, 110958006, 5597221, 34216114, 44151097, 95933219, 85274112, 26086815 >>,
       << 4456047, 51890318, 81722595, 133456707, 106411326, 131380480, 30808928, 43620722, 96527592, 73191432, 67517062, 111366289, 19438263, 35804636, 83769170, 119963031, 30794547, 44429299, 113785825, 30805436, 118258780, 41014748, 1585823, 4800151, 115137130, 123592051, 115859803, 93953035, 105741994, 85143591, 99362230, 13936761, 69082162, 9277609, 95986530, 117116639, 53195723, 59128491, 63642105, 67800955, 38467570, 69013223, 121467444, 8987335, 113086511, 57040474, 46350800, 132727720, 23119000, 37427169 >>,
       << 34105074, 34144090, 123049439, 89929358, 128246583, 48246503, 35118439, 35149954, 57377740, 7178930, 110843958, 71368528, 28221426, 109984615, 71817250, 117978481, 48537393, 92400051, 8852650, 63768377, 80902071, 83153396, 29184664, 60443135, 94566697, 105264040, 74151411, 14381850, 2089715, 86139190, 92105628, 87363788, 101421862, 122184880, 107434990, 97445690, 89861199, 43016590, 32336213, 86389158, 79961073, 16553454, 19741221, 72025376, 61269496, 128895322, 67422829, 68785556, 88727377, 34286827 >>,
       << 117324207, 72325460, 98695817, 51807582, 107898318, 83496702, 76222051, 77749608, 57121045, 132630199, 78695322, 70825861, 69054009, 104208149, 20804224, 118755740, 119014189, 102587196, 92690751, 80376344, 8176660, 41080697, 133306076, 132242554, 42211754, 64591054, 77681888, 94365474, 17830140, 112408748, 64336097, 14046439, 36807983, 112708756, 60319344, 91405459, 18459003, 34063535, 50578899, 31212493, 4889442, 108746401, 12018085, 115675265, 97831219, 132405208, 80291375, 72537571, 100354459, 129319707 >>,
       << 51182388, 95358018, 33907858, 23492068, 35943456, 17743740, 121407795, 27344860, 111621039, 74725325, 87066702, 30384767, 79509628, 60334957, 21841792, 69989640, 31603688, 31979677, 76237437, 106347253, 13851718, 20259880, 130967768, 15130312, 132248822, 86714228, 88520749, 73780240, 67104727, 4037747, 52599547, 123473681, 109643991, 21087800, 126661465, 118321453, 76045247, 28197836, 131990443, 23139468, 69401450, 116357921, 69079708, 124037818, 6627148, 95521506, 77587787, 74765427, 124033694, 28466389 >>,
       << 22519486, 19556285, 16257335, 6010551, 109550433, 15699847, 2000224, 24845617, 30872687, 23585966, 119314683, 283548, 2184722, 8459845, 92833700, 70064547, 51799965, 61915863, 58246537, 50922531, 15383275, 6081352, 122143602, 3999753, 68172295, 112914027, 84742266, 80110065, 90123584, 116478935, 74908042, 123419961, 107647740, 90829880, 64538117, 95947684, 51839427, 16334661, 1503786, 73516556, 11222132, 109767266, 39657541, 25414238, 50019101, 51501475, 106952683, 12474259, 38757233, 8282820 >>,
       << 123113784, 97241541, 31572277, 120492766, 74226768, 38837643, 124628700, 42859035, 87224832, 32744914, 86054136, 126621722, 11415537, 79139152, 68495970, 101350108, 6357179, 105517788, 64771844, 37092892, 56524475, 105097631, 100807598, 102869078, 114919171, 73864238, 86102622, 18555963, 26170767, 42260040, 41517572, 54850495, 116280141, 131861132, 79014190, 42465445, 111676870, 90768927, 106046163, 13107454, 4680066, 489883, 26649700, 98426590, 103763011, 133490958, 2268507, 61343415, 112112212, 100877618 >>,
       << 54261234, 122943344, 24478552, 470877, 49668381, 109705508, 109465342, 37439726, 126628844, 44214537, 127841966, 99615658, 78963818, 50893940, 58724936, 111949818, 10003633, 44480754, 2623306, 121190472, 92480257, 6184377, 58507072, 58096255, 130519238, 120378106, 89716761, 52336062, 56650860, 36060619, 12351726, 9908724, 1750455, 121465311, 86879784, 52745872, 122962212, 49790543, 40143289, 116434380, 11615436, 95154835, 12119360, 94499971, 112839992, 119696593, 133293979, 126513113, 30171534, 132443579 >>,
       << 37875241, 212821, 108416095, 59998135, 72699548, 43477284, 13498489, 53529154, 82425589, 109782706, 123801737, 122984759, 79387274, 36086390, 103673252, 83028933, 63006335, 5631462, 70168054, 82567462, 2019224, 49296057, 103751052, 75389807, 102033496, 26125123, 57699732, 56329894, 73582824, 27152527, 39487002, 74351399, 18901441, 50723650, 71711972, 97390477, 76164272, 75779559, 83460620, 54392595, 21381637, 52132081, 81461201, 61621148, 105349057, 2070527, 70860851, 31417664, 72468931, 58176544 >>,
       << 74897527, 74547316, 69798454, 120488072, 85265713, 75934044, 15879739, 63414980, 71019783, 133547512, 91553696, 88638976, 86011916, 65135201, 104903137, 82458705, 9750629, 48866576, 4111743, 49794206, 107756803, 79371251, 57546430, 24241075, 48723900, 60872342, 113265395, 10406486, 76416822, 60998022, 120365409, 50607407, 3137155, 93041535, 79819497, 31775718, 16979106, 2989960, 126603290, 11673650, 17810833, 57930109, 118269913, 94159399, 102542412, 132640823, 48117953, 61008953, 113987106, 129304320 >>,
       << 84699404, 70058516, 77485535, 75036810, 111539899, 117129364, 25068109, 51021584, 1971999, 40631151, 131235123, 10557472, 74262134, 114726707, 784416, 102146727, 126648935, 131586912, 120436566, 76724177, 49465107, 125429732, 18683135, 126264680, 9776373, 105222012, 61872428, 48480371, 45045402, 68517715, 42191957, 130394592, 128491585, 15807969, 61816745, 65318117, 61326516, 39028814, 94766620, 12108094, 90055291, 100388581, 18517985, 65535530, 39835534, 51686786, 80815605, 24813934, 105234531, 10016439 >>,
       << 12961673, 72720596, 90325077, 107003023, 112043037, 86567889, 74011120, 19415054, 37625374, 12334885, 81678422, 95666383, 79486506, 54064636, 126160018, 18491280, 58484362, 35738306, 23760048, 21839746, 18913059, 80954568, 126570690, 64092715, 44864614, 68749912, 78871018, 9992259, 60301220, 7166497, 108872422, 94909777, 118331911, 133641034, 122596210, 118632299, 35478283, 96771799, 98168360, 49182925, 35755742, 122976702, 17702023, 14124508, 110502461, 74296506, 46521400, 91404320, 39412831, 50042866 >>,
       << 65244118, 111862285, 112072920, 6089650, 42810146, 58400503, 104623026, 67887006, 16967677, 387371, 113403489, 77574875, 18996632, 16955528, 113355472, 116721575, 49280571, 66698823, 111468432, 8169, 95335740, 77111120, 2424215, 125909239, 98558404, 6681498, 8505287, 84841477, 53592929, 29468480, 124197135, 94506292, 120591464, 45925432, 55030442, 36924502, 127592626, 7092217, 61654008, 23042106, 28356463, 111035750, 18255279, 37372406, 113765404, 116033471, 63082694, 133127809, 23840467, 67524762 >>,
       << 21871449, 123418889, 75160586, 82010594, 44036615, 119108054, 96787020, 118846954, 105702831, 37580770, 678721, 7839760, 11939929, 65159326, 69816122, 87503200, 126878684, 122462135, 109632675, 69351663, 24530735, 21598016, 92455520, 35140558, 96244413, 60750160, 32261979, 12091603, 18287127, 133370250, 56329207, 9729173, 52275935, 126379078, 125354041, 72778882, 124043484, 124987869, 106681793, 103673664, 50082221, 838457, 64621853, 8846436, 7907766, 105535558, 47168440, 126563444, 75491870, 86098044 >>,
       << 93685980, 101073748, 127344622, 7919095, 12276469, 15591892, 77089421, 49902352, 130825317, 137666, 81928972, 23890789, 113258355, 62253115, 118904636, 108348914, 14657555, 131674956, 109559463, 88172626, 11566031, 42276352, 24955072, 57365150, 10854298, 100331983, 118126625, 5854522, 99840296, 48684436, 30522824, 127104761, 109647892, 115721805, 106561506, 59134843, 7145766, 110167992, 76438590, 18275660, 26791143, 5885467, 4406105, 62058983, 9513375, 108670992, 57738851, 79678144, 42132300, 91333208 >>,
       << 1973784, 617870, 128443829, 64943516, 34416872, 121608100, 94041135, 111397640, 132603660, 87730855, 11626436, 117743382, 67669895, 77041310, 105388778, 41910609, 75400080, 95479338, 43919906, 93835216, 39330568, 30467872, 108814092, 86685825, 18904465, 107031760, 76166812, 70048631, 62857546, 55459350, 79604276, 74535522, 76918079, 28633814, 116125783, 115086771, 55314483, 46253278, 17650310, 79883430, 34506148, 37450576, 128385952, 63379945, 102809586, 15511151, 55488239, 112250630, 98341659, 11823343 >>,
       << 128759920, 83806250, 106438890, 96764319, 69077891, 124244742, 18958344, 131184972, 63637312, 27136755, 108014868, 41722201, 108842093, 72265483, 11092083, 28617553, 121023659, 103416415, 97355212, 103810184, 9492312, 4767638, 34603602, 44599228, 6094013, 20633166, 47217126, 103976218, 75360615, 89118938, 81976681, 54127552, 29766678, 91885774, 24585451, 9223541, 62850412, 119776150, 39831784, 28633439, 130301281, 118332878, 105182615, 106121645, 97760439, 48310738, 58767285, 34364245, 70332493, 102534409 >>,
       << 118287284, 110576132, 32474862, 45284404, 116951571, 123265057, 20318407, 56462292, 71127300, 8116882, 54442947, 115701614, 36642579, 131400980, 73238590, 58441314, 5223457, 100036756, 57615231, 60103323, 26005508, 78958411, 73545099, 29397627, 132838833, 96334478, 133742043, 33738434, 119587425, 40208372, 124949851, 72738226, 67562496, 26203586, 73438903, 40753834, 129878872, 23739994, 42670431, 107401285, 30581711, 51355068, 123632960, 131720910, 107078047, 121836650, 84640648, 130063311, 114059521, 39985512 >>,
       << 54477927, 122809825, 18508590, 72503359, 6366328, 44405710, 44827714, 7123333, 59796155, 109562522, 59637432, 124421442, 37138074, 94581612, 6727120, 52811125, 48332620, 60261832, 83198164, 45038576, 47303591, 10745689, 48885059, 128972624, 53293282, 21401790, 27647507, 75775443, 24531277, 97869759, 110682911, 1306363, 79734272, 4565322, 72590604, 125750916, 44735640, 121106446, 102765115, 43560692, 14380105, 5704947, 66220947, 84415442, 93930555, 41536803, 98062139, 3698549, 89400067, 132890696 >>,
       << 80542503, 13652183, 119384416, 31349369, 13385516, 127646695, 11184988, 133785735, 13437484, 62102504, 104543420, 68116890, 126353077, 52063088, 12717763, 80668480, 132376289, 92164370, 2563103, 19102432, 44095081, 108104502, 39585094, 94510701, 126490743, 59751747, 91533425, 52219432, 7245530, 92172362, 94314420, 23776348, 22574091, 85073357, 3193443, 54508893, 96245755, 83346861, 49787936, 123396726, 31381157, 42295635, 109732741, 123469185, 125113408, 35976961, 93768879, 126231340, 11161254, 91615401 >>,
       << 23773513, 133977598, 87245, 119852245, 11098866, 89504622, 18150688, 24459957, 58752116, 120945865, 42110410, 105352000, 106553608, 120809082, 75952511, 47961952, 117027515, 129114626, 7988778, 1419443, 21194143, 115418064, 56060162, 101944612, 109046001, 93903559, 123342449, 6814758, 10595135, 42883576, 14897335, 45266351, 28802960, 115806231, 96566199, 124889784, 24574296, 121669121, 117911319, 46576842, 129736521, 107098717, 87869173, 92125086, 92126190, 78946941, 34846904, 59076543, 85055990, 119533875 >>,
       << 82897594, 45605075, 4293708, 58795644, 37919132, 5882210, 128293577, 112038722, 66077091, 13407419, 102674544, 59450701, 94514040, 25670862, 113350201, 17332224, 62236168, 79854240, 73919680, 6646123, 124923194, 47495033, 95066012, 99745720, 79173318, 90472332, 49144824, 86424580, 3764851, 122601893, 30950556, 89446326, 100796991, 111297848, 8826541, 6461845, 1304964, 131877933, 52703331, 38633985, 128499062, 90937667, 83488889, 29022140, 130169013, 40810571, 103731694, 96820336, 1638103, 27281556 >>,
       << 92614174, 120428522, 77709140, 15907148, 403216, 37236581, 46735929, 16919017, 125854310, 4218828, 117881669, 28791442, 57499981, 6121285, 67978901, 82084161, 93781911, 130500425, 102048031, 38146203, 8644892, 9664837, 72848157, 40250808, 84135858, 82333304, 122118977, 12588985, 128233195, 29713306, 132940733, 87770504, 45205971, 118178726, 82594049, 82758578, 119709716, 23389105, 128828128, 73208168, 48207541, 46453852, 102000801, 100669035, 32699596, 122044524, 50170562, 92076674, 76112485, 45696789 >>,
       << 19663961, 6134368, 48499037, 52066056, 9484050, 4463768, 7962450, 54701384, 129352886, 65349641, 76422833, 126241197, 77525372, 1751302, 86453037, 2579877, 53389592, 76664221, 57508694, 126554511, 122675965, 121981531, 110628667, 73483941, 7890635, 9890201, 73381572, 51923119, 96251401, 58952764, 64089052, 35268115, 5917502, 104460840, 93341966, 120183737, 32431822, 133696415, 64287873, 67236886, 35843633, 93199205, 91297325, 16818338, 96187999, 119422027, 128368070, 29233152, 88880638, 26017491 >>,
       << 76541148, 113853952, 38785706, 41172195, 77987635, 93803330, 129275851, 132412560, 50327438, 115680652, 30202787, 2752966, 373002, 52697974, 65870908, 61535643, 50596989, 101839416, 113825524, 113616826, 21095743, 44852112, 44035727, 1080445, 29254929, 21566119, 84944132, 46699561, 111191639, 1483668, 9781591, 66200246, 28523490, 132253881, 50933338, 42024054, 34239462, 17449362, 120640792, 52501008, 24648400, 38368696, 14195922, 61656739, 72106986, 34194807, 24665225, 78129878, 8207186, 84253345 >>,
       << 25067866, 88783880, 127107537, 76864099, 94282108, 104568813, 20059058, 29371554, 105934942, 29705384, 41300844, 44430091, 114891914, 12784092, 9360882, 2044584, 98949170, 105690410, 4288027, 76680961, 5346404, 86322270, 120128921, 119768789, 56606976, 112599313, 90834115, 6227011, 47804260, 32787417, 754115, 85524438, 102583337, 128724898, 72613651, 74596315, 122611182, 55566748, 68509660, 33994245, 32611649, 1871598, 20329530, 118970385, 121178867, 15656264, 11863001, 51543109, 52691474, 59602309 >>,
       << 29520390, 106646495, 18264493, 82713862, 124489411, 871774, 37794354, 120310719, 91045023, 44897404, 128538676, 130899354, 123954046, 122419287, 61275566, 44839860, 101231988, 117636108, 133683876, 75507244, 74689957, 106025883, 131804702, 72884303, 60552007, 43389587, 115052760, 75912695, 115521702, 24973630, 11774497, 22950147, 79647361, 98911304, 79671199, 103490731, 56840903, 41833635, 22479737, 53048394, 6231220, 30996935, 127943217, 113167590, 32248411, 56248001, 90064989, 107925394, 118421016, 24049258 >>,
       << 107017097, 1137010, 118748368, 93175939, 18987151, 61414425, 49666464, 47475913, 69881903, 25036788, 10433775, 34337526, 62001039, 131976743, 62192105, 119444132, 3310360, 93268308, 79971987, 16922485, 147286, 121779892, 59715838, 15372552, 12191547, 107528949, 46204754, 112991694, 21757048, 30286199, 95790421, 100922918, 73917832, 821305, 24284355, 25373207, 57908115, 94009322, 128504779, 22581930, 13284153, 86843557, 106738217, 81603629, 97382632, 88617690, 22940063, 9063074, 47321364, 121722642 >>,
       << 122189909, 70388195, 105451694, 16709159, 70095741, 76886722, 122119452, 65610054, 97011151, 573904, 92126438, 49129335, 75905949, 12678654, 58214906, 14282914, 103723803, 15041051, 67529353, 58590128, 28378459, 71877693, 49852273, 44602664, 73851704, 73900430, 10945862, 98023236, 78992670, 118208849, 42003082, 76366538, 100612918, 62243471, 92646119, 130568624, 63142083, 22478703, 94486288, 92708467, 12642823, 51233557, 74626797, 69358894, 5966926, 95137515, 6757047, 100718654, 133199725, 103767296 >>,
       << 45589651, 123100185, 31720102, 64256765, 71803531, 102755465, 108487630, 93867075, 81050580, 115169562, 28983946, 9015235, 73482715, 131411161, 50390396, 81692490, 126514280, 20746464, 68252441, 121952223, 78099210, 64369730, 120690552, 23136216, 107871569, 68325483, 37058987, 44519864, 129042953, 118389149, 41740604, 116263777, 7169970, 88228900, 12881476, 133604209, 68976320, 18535751, 22564866, 96956534, 101199194, 63991263, 21812203, 163632, 7244313, 23841398, 73980790, 28689232, 82549527, 39533233 >>,
       << 72028558, 17107502, 83922594, 124368996, 112566080, 131450473, 30687335, 18155669, 88917279, 126904791, 20869120, 7940265, 33817770, 11902499, 37235260, 37412468, 65400901, 132526985, 37414684, 87890289, 28376649, 98132254, 17673668, 124091639, 100570158, 115461375, 70450969, 100364346, 14724522, 8863603, 56567427, 130719756, 127974766, 128387108, 48305167, 77480448, 80858593, 95367089, 26344669, 94100154, 1370078, 90345477, 16982970, 98746571, 84195153, 98621363, 1750973, 17123588, 4847364, 85099927 >>,
       << 27898180, 131355606, 6805868, 37178071, 125776052, 95884355, 93399238, 20034371, 29396033, 114403877, 17609439, 17526755, 96225993, 58909058, 66844055, 48207686, 114150363, 124871829, 17071436, 93342067, 117549298, 13856023, 32708760, 50053912, 96348509, 26033313, 5560483, 120596124, 104266517, 101912065, 17534576, 67556899, 12554330, 56093439, 45025369, 118961988, 6312908, 54647821, 34019584, 53133159, 26446456, 387330, 91560908, 132118721, 110713312, 7709617, 46229195, 95998870, 106440992, 79842205 >>,
       << 30978675, 125480519, 111156009, 59051822, 61326503, 61686315, 47762576, 53403040, 121211139, 78458610, 12878701, 82021157, 72111034, 30097648, 17719312, 103066483, 9534513, 91776337, 3075969, 87477918, 21729732, 132965254, 80291052, 12033806, 55795728, 91621883, 118576046, 109112929, 92044869, 131302546, 99629330, 9935807, 63038907, 40069088, 50750421, 116123718, 81620278, 5486368, 115507857, 126821023, 21356906, 78120126, 100539034, 128283512, 71254303, 29282250, 16016420, 126716621, 105382149, 3915350 >>,
       << 35389275, 33278142, 113031037, 129568546, 99572649, 72640278, 110216640, 37031436, 8976593, 83226902, 51955598, 52597519, 21770432, 20244833, 76167096, 10893092, 107569930, 116586131, 27249427, 126015143, 15906873, 56344543, 65343616, 1877988, 67254787, 7499695, 49243476, 54473983, 74783439, 118755590, 49469218, 130035369, 112909128, 56060603, 112935440, 130152603, 121790666, 52781957, 61807877, 128049981, 101085131, 117710685, 119577894, 5446471, 51427497, 31389215, 94009614, 52881948, 124803905, 20531509 >>,
       << 11289411, 76548120, 68738936, 107935462, 52843719, 48593635, 48542593, 8112731, 40694371, 78009158, 38512397, 104529158, 102417127, 105122354, 34190049, 40332842, 88050465, 4855694, 59186698, 129562026, 57912960, 52548420, 131492647, 26353271, 91920059, 41093383, 81155978, 103375868, 25308700, 96271656, 30161371, 76175658, 55946279, 46142700, 1145701, 40574135, 86868831, 81137087, 50590529, 22451247, 60883220, 25470866, 17377943, 113616563, 22675186, 51719505, 18077736, 58229002, 118388652, 111940714 >>,
       << 15766710, 11872853, 39663715, 130011005, 19710954, 34323019, 29050372, 105472379, 55154850, 89317146, 18447613, 123431340, 111232760, 99165960, 46106831, 126277184, 87851680, 74464701, 93338543, 43025024, 35776413, 90396463, 20307891, 13611269, 91157701, 69080131, 114105249, 68885653, 85393642, 118955070, 128172532, 5273520, 71645549, 98643613, 66168307, 127391889, 132382794, 79741240, 127556637, 92240240, 82906190, 13164895, 99308407, 83587401, 124863444, 54702301, 19799652, 85828215, 32225955, 97221267 >>,
       << 41759819, 121794517, 110147202, 95457766, 11359569, 88317278, 80636015, 76624045, 91630212, 51038473, 35389150, 29608852, 26979534, 75122416, 45477727, 108044995, 32134668, 119099652, 17982209, 96658966, 129613221, 129171902, 132784806, 37813626, 127135689, 61865387, 130742604, 128580038, 25052945, 119314651, 49074470, 89484361, 7731369, 48945246, 71354003, 31655280, 30187291, 32953482, 34996204, 127404191, 27153169, 127421458, 109419194, 4661983, 108570976, 92546389, 32331122, 10408360, 10560999, 94812185 >>,
       << 111998497, 49102796, 113862198, 89719331, 71001446, 67042862, 54447809, 3756676, 50178914, 131551874, 96471404, 35846358, 49633035, 115906014, 62666858, 104469981, 97678858, 52399178, 122961907, 92587275, 75660611, 90615691, 36045914, 67025580, 44402602, 106846174, 60871955, 53871859, 78762521, 95577295, 120113389, 96710853, 107036977, 132924459, 36004061, 96871066, 103627988, 126532610, 120995641, 122968485, 85325945, 45030524, 127102771, 26758764, 48384498, 129795836, 32202747, 58597599, 49757038, 75741435 >>,
       << 63376018, 133026975, 115057657, 36353477, 52751253, 51896522, 124982649, 97728417, 79812200, 104276537, 67483298, 51312479, 129154381, 108299383, 8533850, 57835495, 28000735, 121593849, 37628906, 16974940, 10613757, 23767704, 46071248, 38325967, 49652384, 2969702, 71871771, 93649259, 121904423, 1062915, 76864684, 44565710, 124190728, 112578042, 125741408, 82990227, 123086384, 126150719, 41117533, 68188722, 11749199, 109356034, 45860921, 24879238, 102061552, 53566423, 79986323, 19138827, 43365278, 105565917 >>,
       << 126158139, 49823728, 77271371, 51175454, 53294489, 40545437, 113311907, 59952950, 24390563, 15145352, 114547926, 123834371, 32149055, 1818145, 60827518, 116784958, 131645768, 37068773, 18348753, 32158208, 49384436, 104276388, 96288397, 78987309, 132513046, 15926737, 35660991, 24372953, 51647782, 16447014, 125241941, 109204607, 38374892, 7065104, 133908523, 89616888, 127997668, 35537084, 87330798, 73076416, 78318891, 26227933, 33260813, 106386143, 120428282, 21127637, 126293330, 55761575, 109599246, 15615418 >>,
       << 40399190, 104253828, 42511436, 118934475, 41466066, 28654272, 96421253, 108661765, 7494253, 60774482, 76043905, 55384844, 29529338, 88286472, 103390585, 61457996, 30333941, 13992174, 128990021, 121797269, 91357929, 121288120, 2425579, 4024877, 71693460, 86653191, 92108048, 98095797, 16372136, 66529367, 126184351, 71246829, 110320481, 47817462, 123447097, 22415998, 19070828, 125080345, 16139313, 10656998, 49440487, 97964105, 73683223, 59946219, 12398776, 122963603, 125162326, 74756776, 37695226, 42726287 >>,
       << 20994124, 28066975, 48687226, 109474082, 130118854, 88307414, 37495084, 99203594, 120294137, 23651605, 58108970, 119343738, 121580264, 67845175, 107040044, 61828022, 34864610, 35844090, 113298758, 91305140, 87306866, 119493173, 91095264, 66847853, 6524247, 15089913, 66735750, 26037642, 86277277, 129503119, 21958106, 116728303, 86987146, 125326988, 109503933, 90825868, 3397731, 92811690, 71006112, 55153035, 106922222, 45826915, 117482398, 99585778, 110106290, 19808913, 29872087, 121458627, 59687908, 62115842 >>,
       << 60796114, 17724374, 77484527, 57710226, 53728027, 91532272, 43474974, 54591401, 25273235, 26169665, 62818001, 457051, 14961937, 37400755, 122275939, 8314171, 86665124, 111053752, 6260094, 124151448, 102433912, 84463186, 93988106, 47930481, 109426518, 20468290, 109209126, 58965657, 125148505, 72076248, 8439853, 3299958, 124496548, 125634623, 49323356, 43685675, 87117661, 69678327, 88353556, 132081454, 6124393, 4881035, 3398022, 123584310, 20398821, 64940567, 114935319, 91592652, 23915102, 97910252 >>,
       << 17183032, 8819793, 41498614, 25005914, 42921300, 62158202, 88928380, 113639717, 126884479, 26154680, 16094731, 57099258, 3552710, 81096407, 40416168, 30428388, 129877066, 76995914, 92918894, 106268313, 16564869, 103245561, 123275364, 29208016, 102416693, 53418120, 71012800, 108195995, 84227868, 93164251, 11656084, 66354175, 133339219, 22075919, 121927829, 4708670, 26636781, 16323980, 26590626, 50745502, 83541727, 46420975, 47119069, 95185508, 20692977, 69537865, 104094632, 52447647, 23623696, 121666247 >>,
       << 96750291, 3595556, 80655868, 86553702, 25029865, 77257533, 97476208, 84713882, 114883019, 65047236, 105239185, 33035177, 46166791, 17155779, 96520866, 50134200, 129702671, 82593597, 47278045, 111031211, 119890161, 115401328, 88486242, 91655342, 28616380, 122077009, 31491678, 19912354, 22679569, 20236850, 85890840, 93043084, 103462785, 109344709, 59417375, 30445873, 93859868, 82671221, 25515341, 119939843, 70090170, 80985600, 81594140, 23395000, 191149, 38564701, 48800300, 114469481, 63576443, 92769936 >>,
       << 93079019, 111173284, 120044597, 104919648, 111615013, 29804324, 104939298, 47518285, 30266345, 17341287, 30418726, 56804545, 57287009, 11691385, 68085419, 46977287, 130458675, 4665196, 63020918, 53297325, 12299448, 121788898, 6570619, 73984445, 131013034, 61621333, 6115184, 68645744, 25157442, 52222770, 81488185, 66818175, 105751784, 128796526, 16212584, 102608277, 67869393, 108303745, 21259406, 111369159, 114560219, 26830566, 51154803, 5177367, 13243302, 1900451, 65953544, 16734439, 20934062, 53207360 >>,
       << 13391799, 47542705, 86544417, 113457167, 127795436, 110545292, 131598342, 74305889, 29831416, 119849507, 129217560, 74930512, 90968871, 75191544, 84841711, 129105201, 24546409, 94769390, 12031352, 129339919, 115297074, 66168686, 89418620, 106536102, 112986431, 84592986, 58350056, 123888718, 94952528, 102279922, 35183616, 71690032, 115364068, 34664500, 104602680, 54027629, 64220011, 26884363, 43528399, 59406943, 101166834, 35253038, 17585761, 19481516, 28161588, 131490161, 130173018, 129409035, 29083765, 131822249 >>,
       << 92724541, 131865108, 20503941, 19009846, 127813400, 21660837, 123432346, 95572535, 68230692, 2266578, 85193419, 14244604, 101251346, 81527632, 39196532, 34058594, 133833634, 20665324, 46453576, 75190528, 132927832, 89973250, 115167445, 99397183, 75977102, 20707513, 96281745, 109479628, 89255332, 132984590, 91983177, 84736386, 115458434, 24713836, 23976414, 98549698, 128628138, 47478039, 54361854, 7671873, 50603699, 24567276, 110199852, 119242767, 82937486, 133265155, 133285999, 45303025, 28328468, 49874049 >>,
       << 88058871, 6618133, 120825238, 52292747, 32513327, 111818953, 120405225, 85286200, 106079758, 96913227, 64261898, 116030319, 107204804, 32835306, 8948174, 114767376, 86940109, 15400191, 71346472, 7438597, 36447632, 53260244, 91761198, 106432349, 66005098, 37014526, 14031307, 111088410, 31717630, 847304, 65171676, 89791980, 42312851, 30751318, 114993971, 75013013, 127477031, 40921707, 103638931, 16377872, 87671175, 75388033, 43481023, 19930950, 1818925, 119249583, 88582538, 9628390, 29494552, 103987648 >>,
       << 51723054, 23422977, 53860585, 88731132, 7694960, 68278971, 105299858, 38496836, 89116571, 53592665, 30767884, 76626319, 111155355, 96649531, 63555662, 88161045, 49039804, 51823655, 8490284, 42121679, 98045724, 37158023, 106133226, 63906952, 6044217, 48524020, 42737668, 33745968, 76326531, 9760510, 107277836, 23391451, 125732951, 84048378, 88541856, 9031885, 49430703, 11606874, 57461167, 131178230, 96687751, 35925808, 9666479, 10400956, 75997625, 102868107, 123253749, 90359459, 45932113, 44284913 >>,
       << 57480783, 36456110, 2269217, 76447121, 125271474, 89996378, 12257297, 77340546, 96757093, 50462544, 79513946, 132173045, 28389728, 79313901, 43089333, 60513308, 73433438, 66659389, 48016754, 108025614, 24811860, 8079655, 64043381, 107834297, 70858, 108877887, 18399621, 2437415, 34040426, 22646191, 58330593, 131049438, 21246090, 89478064, 2001043, 9545651, 83584003, 116350290, 87513847, 66589496, 12897516, 18247605, 97839910, 88802796, 12053475, 20088520, 41269401, 9837032, 126272141, 27083170 >>,
       << 76715313, 32702271, 100918009, 96160624, 57713148, 121592797, 127055187, 83255820, 54161372, 62110248, 71401187, 76038301, 86874609, 60921858, 54490175, 4876892, 76020208, 128163309, 70225378, 63695233, 28939951, 9958063, 22142393, 57225399, 65840438, 119882786, 64944298, 31047809, 10724388, 107090966, 80791303, 132216536, 103413583, 24880515, 17696823, 58767112, 87514564, 52264845, 90590266, 102628330, 3800827, 61791460, 128734105, 45515767, 93342104, 77413513, 129363707, 71191483, 71774964, 83434765 >>,
       << 63774133, 87073528, 73107943, 56419307, 47300592, 31840662, 112831484, 85550709, 125623684, 27917940, 126259236, 84686715, 91930794, 76727686, 120810614, 122922384, 93722036, 93008704, 41442057, 27248252, 15473711, 80882006, 12307163, 84552507, 103342737, 51302208, 44132892, 41441964, 25283412, 4144268, 128018603, 68785805, 90209545, 97318752, 105446508, 77607161, 85487860, 44945647, 24385885, 31296200, 16735503, 19425562, 6131158, 21278817, 16247241, 78664139, 9294991, 47240995, 113033460, 3156663 >>,
       << 103964480, 46856138, 65268732, 108388092, 50752545, 36545801, 133303345, 37955201, 75569997, 85910603, 61216008, 107312562, 123703221, 38130237, 64416180, 924446, 95424301, 6703057, 159801, 18828124, 56487529, 129945520, 75331364, 62312890, 53102334, 41093489, 41498353, 73115848, 89305963, 102343071, 58419398, 66627264, 53809725, 39962506, 76825671, 60106198, 79602636, 60416623, 123930911, 41541660, 118757659, 126298402, 11948986, 56343204, 109550622, 27018872, 51761995, 119524428, 46648543, 57261364 >>,
       << 92694280, 132957115, 4533166, 34484770, 115145516, 44375853, 4432708, 3094200, 54587161, 32784548, 47379304, 42242979, 93822432, 29607195, 63117198, 26733466, 5051291, 79035895, 99202306, 51824273, 130869196, 36560856, 75839231, 57260591, 82739686, 25027777, 129236378, 62331124, 59240944, 10613694, 14751864, 118478271, 85226879, 75891085, 87251436, 48062483, 18435232, 76411462, 93408215, 51023799, 29895678, 43096805, 27633907, 6649866, 93243940, 49789640, 79666872, 62538971, 96504673, 1067974 >>,
       << 24058025, 49393042, 46944606, 14780319, 21677773, 71003352, 21622781, 62098857, 55502448, 90519274, 27698521, 57252780, 40226350, 31510394, 132533046, 10517721, 114531392, 42146187, 82420626, 38920575, 122965603, 70399918, 83317657, 114076871, 75107047, 112809464, 76492934, 102468614, 45016517, 82104213, 52810773, 46799163, 123829711, 37808190, 55559093, 88242667, 58334317, 33287832, 40068971, 130509915, 44346554, 101162485, 35128164, 117394743, 120947160, 126445942, 123929370, 39213035, 100036370, 29716697 >>,
       << 41257395, 95165292, 34547356, 105436695, 9797079, 106261130, 120351406, 40983721, 82139466, 16282257, 53086054, 76421624, 124554458, 80997797, 79066088, 32828067, 101063465, 81532029, 32542169, 111908512, 94715732, 126802196, 115121880, 34692423, 37015631, 77620704, 60517485, 38263982, 30388900, 77164444, 118234749, 36190360, 117718802, 55018243, 35405879, 2305350, 70574974, 101880714, 90734087, 112309572, 88232407, 93899822, 75344093, 22996510, 19609766, 30135742, 6408122, 79634193, 44048648, 67176544 >>,
       << 56388658, 17220631, 81260613, 97032711, 64025619, 97112705, 125517635, 29330100, 132651027, 77258340, 89792714, 109732712, 71562020, 86240962, 103419728, 118425246, 70113322, 78200200, 115176740, 125326814, 36186270, 13389421, 33444000, 21165240, 13906478, 129833932, 1070533, 133909880, 120019669, 102038868, 76639255, 59799777, 17326000, 8214653, 92780950, 23264910, 15454302, 115483787, 64255018, 102231458, 5818570, 64280921, 43865505, 40447664, 120693651, 114303262, 69601571, 46673900, 25865956, 38529266 >>,
       << 84597065, 95261753, 105276226, 55404883, 49733577, 45188172, 63433664, 107421549, 78598588, 17704886, 115312289, 104387303, 16865926, 5005295, 32807356, 1363738, 5759381, 40503050, 37331005, 76059172, 58094439, 113851069, 40854087, 51204257, 124674900, 8601785, 19915454, 97111156, 81998766, 29990423, 76044212, 7329318, 110455890, 3675662, 18983103, 120425360, 98958289, 117392409, 47750842, 14312453, 18301985, 104526772, 15408026, 27385806, 98494184, 115933842, 61937580, 44737245, 115222118, 52812300 >>,
       << 116006952, 47813594, 70969638, 94889086, 79846877, 52560511, 25543591, 44394844, 78161731, 45282621, 84289329, 90937988, 112686907, 63263970, 129364732, 310959, 74541470, 126153990, 57746387, 130305596, 108201558, 10587268, 123842412, 76995890, 81803550, 29313269, 126752784, 9232076, 35043102, 94733056, 48384982, 74162069, 40043139, 25387628, 34812710, 93383723, 43923567, 53223875, 52061217, 29700674, 11360466, 9727964, 29906700, 125433019, 72751344, 73917738, 49792980, 6450225, 118785106, 27474847 >>,
       << 39812119, 119487172, 24637969, 25567631, 111241474, 54679723, 21148865, 125196705, 90026340, 99436772, 18217622, 4494343, 115155490, 33374719, 26159411, 41611169, 61407200, 39292923, 24576822, 35584224, 54569904, 27905513, 88049954, 14466179, 2512095, 40434140, 31137264, 89024698, 60500284, 95859055, 77771867, 55792325, 67704078, 99515937, 93032539, 90569742, 107507896, 88319658, 53183111, 104881886, 110267165, 72514117, 111561119, 3760835, 4384831, 74110857, 106229268, 121011578, 132684502, 127445208 >>,
       << 87392532, 42116525, 95396004, 95005535, 120418319, 18907022, 76380740, 115474952, 37658780, 51194546, 101101280, 78190778, 128750140, 6727400, 20534055, 118933143, 108007377, 87754046, 12035381, 86789632, 88941279, 130497065, 65403701, 58808057, 119355607, 38392494, 8645137, 62520793, 35365829, 25276371, 133351620, 5038516, 40546917, 27895721, 112940512, 42753307, 7844402, 20825995, 30652764, 72016067, 106560717, 106216559, 112033575, 49205921, 127137633, 6299062, 21927086, 21741531, 109396405, 75039056 >>,
       << 81805966, 126744492, 37625379, 56656565, 52458119, 45411287, 24316766, 60190702, 100878910, 45201053, 97956488, 117056735, 101185630, 123786537, 101841187, 21405453, 26705345, 26983380, 17914921, 69835357, 133414607, 20577994, 83699313, 106462556, 31376497, 1250812, 18292826, 2179926, 18044506, 44317225, 53857905, 76989557, 133077751, 14469628, 28927442, 27435603, 117818297, 1336919, 30832741, 2948302, 29455367, 26476938, 34042835, 54799954, 62873761, 59186422, 9089333, 98524298, 92913297, 16489417 >>,
       << 89969836, 120917247, 57415160, 105134519, 61242777, 49016327, 125200266, 109492821, 1436957, 58725569, 114877326, 57293274, 19058172, 104140303, 64208166, 81828859, 81867600, 46623676, 100784596, 109230508, 42303911, 33436784, 120614090, 100447581, 7605519, 23294933, 37311724, 86134890, 49686746, 28267512, 7522909, 10501450, 126374329, 121267263, 23225244, 122169698, 30981524, 98611928, 78077298, 74642318, 103291611, 34670469, 109530354, 65449429, 22901211, 31539529, 3898137, 29096366, 36353305, 96199062 >>,
       << 123198425, 127609026, 106354632, 17691237, 6263500, 17053140, 72502237, 39729133, 61532475, 9140411, 127043523, 130487206, 107314444, 78051323, 108649173, 99508875, 106993442, 134137428, 123114073, 103424509, 2199227, 12195959, 60964226, 96327973, 21883430, 128528485, 21932060, 88841048, 106980748, 17770796, 39282050, 6995319, 118256561, 50103462, 7850353, 58968103, 109296744, 117933633, 96933699, 55510726, 122982606, 111578616, 34754808, 88658036, 118527383, 73345228, 62085087, 97931604, 104178177, 128639831 >>,
       << 13635217, 111628487, 123123864, 63926166, 86193700, 85370837, 92742278, 66463577, 43099315, 110708187, 34957021, 55555398, 14209744, 83523502, 105583682, 111723461, 80627301, 125589566, 115731319, 24545299, 124239889, 35394511, 6717119, 51850636, 48286271, 85875021, 72695541, 30519769, 72051154, 117091165, 123547176, 59150591, 20681094, 105846756, 90951067, 62969714, 84412523, 19909582, 45564019, 67885883, 117066023, 124974695, 8601881, 24142912, 20877814, 42501103, 80369200, 5382566, 107731798, 128283346 >>,
       << 78508415, 104950359, 92354224, 46069176, 51711055, 52909020, 101770518, 71642266, 37815498, 95645102, 34188269, 122790175, 68066270, 97268539, 99253687, 19788104, 127124900, 33206194, 65158383, 33434142, 84181500, 25182800, 60581790, 76960904, 103269934, 126230240, 10242039, 106626477, 25005684, 13385491, 17447060, 11346274, 11536372, 131442967, 6327866, 16002217, 71258319, 61456902, 129655702, 68922513, 5632263, 31635949, 93534868, 46527328, 131871630, 92390118, 74195414, 55824999, 108359664, 123240489 >>,
       << 99689852, 82435286, 6710432, 89873483, 122987835, 119568587, 130996229, 120635906, 9923241, 60990495, 114763908, 6641596, 115823706, 110646298, 65059528, 39104072, 93091531, 4839040, 107097391, 84460467, 125162380, 30270833, 80297666, 20273667, 47314672, 13900796, 78887402, 130409221, 83137998, 82845962, 33798594, 93206820, 47641877, 23917974, 80286041, 42726795, 98679376, 118883288, 120446973, 102585039, 14682341, 66302450, 13693384, 23174501, 23555599, 19073006, 121509461, 66065990, 126882252, 52051034 >>,
       << 100453687, 34162057, 33524010, 29569780, 74833941, 60989006, 24399159, 21951279, 2880851, 48414556, 115045398, 38824005, 20086155, 19373250, 15164841, 50422980, 23642126, 50584537, 91150910, 43017146, 91952459, 108838346, 34986948, 79336448, 117986787, 86711226, 51338299, 114084716, 128595887, 25817805, 121973263, 26212551, 99326206, 98776271, 202363, 92926459, 72420995, 109582597, 26239836, 27159852, 131018242, 38909287, 39517409, 40539380, 59434108, 117737010, 121446047, 111872338, 2485938, 40900605 >>,
       << 67404592, 112825814, 69600607, 66987497, 68259723, 80425989, 77861127, 123808959, 44371525, 1576195, 36367920, 62360903, 2793011, 107970040, 22308343, 1385716, 115451593, 50223068, 82389507, 91686352, 50670300, 102804771, 68113730, 91852535, 46890422, 9579312, 82151642, 102822686, 117434602, 42039919, 25429761, 105766637, 91519176, 60155720, 66684091, 34544778, 83740325, 94219610, 121302459, 24381903, 53319462, 57329583, 85182735, 88306222, 28078761, 21469242, 127188563, 117795940, 80226319, 99466195 >>,
       << 42484260, 55581553, 31295743, 35971352, 24828471, 60713460, 123652363, 66841520, 63641389, 42802943, 106674962, 22883633, 21477248, 122413081, 48142922, 76133493, 20617314, 2353758, 56151444, 10811695, 118893050, 53602194, 46880867, 72844920, 11236031, 19026689, 108652097, 81146225, 17961181, 3728160, 87794477, 49510965, 76867112, 97324998, 124479755, 21161829, 20254713, 79527918, 38364464, 15706912, 9574538, 43295997, 124025307, 116056105, 128184673, 124679820, 103160407, 55098084, 29308629, 5642716 >>,
       << 20352073, 79378026, 42647161, 42386580, 101663330, 89233384, 94104266, 78056420, 53985483, 31217887, 58504386, 32797947, 62179362, 89707782, 96663815, 109033653, 20692256, 86671447, 54842108, 23133830, 110953519, 83540199, 97001818, 39816893, 89131349, 102535036, 128037720, 24143808, 5737190, 57910178, 50597830, 10200250, 44993070, 89019281, 34790435, 83685072, 69037849, 3632984, 86745874, 89767928, 73984145, 45586036, 13032010, 26109610, 27482786, 97153685, 14357156, 29935290, 87872518, 72250714 >>,
       << 102043472, 114264016, 5428771, 5853153, 36589276, 77027101, 71730341, 114308897, 114218139, 30125106, 94539273, 114828524, 21076736, 8621118, 109913856, 86216933, 11235092, 23727039, 114152678, 20379621, 12664947, 127474201, 111244443, 23205676, 104973157, 10236711, 49944187, 100553678, 39738181, 68633818, 88952299, 122365835, 118572743, 15119992, 95459513, 49994691, 72252947, 20623050, 116733211, 58443796, 72939264, 55989780, 71911907, 67042229, 133068011, 53883504, 39990742, 119940921, 1132274, 13956119 >>,
       << 102485424, 78228686, 14728419, 71247910, 43851162, 35184355, 74661566, 72106291, 7850078, 52272894, 41514064, 132717417, 41016226, 100673577, 17926819, 112363279, 112316101, 90425078, 128848, 5715022, 106651079, 52112332, 23845304, 76506421, 124563265, 67441203, 122885225, 125149698, 66817345, 59357007, 85668618, 70386112, 64483772, 32823207, 111656842, 42101199, 69898039, 43928419, 104144686, 98884770, 128817172, 52038466, 85604856, 53918832, 37818391, 126933943, 116798452, 53592573, 100520264, 41713824 >>,
       << 104028240, 100039960, 15938617, 79966028, 58430937, 97203226, 17354510, 29220746, 39754525, 88382911, 24198463, 15004610, 81941937, 18912533, 95946752, 124844229, 58534862, 108536953, 19438830, 24031104, 10080250, 25945352, 24564761, 2296163, 41022074, 92633990, 8585082, 6103166, 38161067, 21890260, 82105579, 33948447, 71390079, 29119631, 106815525, 130537511, 15135451, 37769473, 98346553, 65175799, 125850716, 68595982, 123082565, 118108181, 76282908, 103681262, 115678544, 93954802, 116211225, 15021199 >>,
       << 12085984, 63224527, 115789748, 82543545, 59930028, 20592253, 110780943, 102052638, 54526122, 78937138, 81793674, 79733579, 131099075, 82270938, 37270260, 77224493, 92698103, 70712066, 12956718, 87468040, 21593437, 68945937, 93725443, 26731136, 14883895, 98697791, 73759721, 2671254, 7652163, 29439338, 117465125, 57980848, 56673212, 55005289, 2810085, 98985637, 92367149, 100009125, 22560859, 94788636, 286011, 8373570, 722446, 46685693, 125660837, 26401764, 100394289, 21648467, 72375751, 45185815 >>,
       << 25956606, 73010662, 53154202, 25307028, 117167805, 12933377, 516583, 43186631, 84799875, 6229481, 43840537, 108664432, 24086771, 36259294, 32785604, 118956624, 71062939, 120681127, 31533557, 73797377, 95265646, 256489, 125536197, 47684613, 74242633, 92491109, 21721638, 124138625, 56093594, 113071896, 108758868, 82670664, 22939969, 88581654, 104468826, 75773321, 102986117, 82069403, 8381597, 8004919, 60545867, 53433094, 71669833, 93617734, 58008304, 22013599, 110412194, 61389663, 101507057, 58538757 >>,
       << 125300622, 32757933, 115131238, 30486002, 23798199, 113257809, 74599555, 133270612, 119391419, 27757450, 118381932, 117048688, 67323835, 81794133, 119850637, 51722751, 90352011, 105978825, 118482571, 128813929, 27359832, 28788381, 109328038, 64914697, 54694937, 120813174, 100258472, 11180576, 67868292, 45127018, 85228222, 15306822, 118550871, 84705607, 129315435, 72790437, 122547624, 108894233, 100669004, 111018392, 103074334, 54021354, 23760984, 53371598, 61052396, 14059958, 33263469, 58257666, 74108315, 40896516 >>,
       << 129537856, 104283347, 14584120, 110122, 130613646, 9983865, 25484177, 20810799, 89096950, 67892895, 106179905, 21052222, 26994551, 120805207, 30280704, 96220186, 81708236, 20448683, 13307600, 90332141, 72553306, 113970805, 68196270, 98125213, 130300779, 30038699, 46885958, 120488798, 25076564, 61885996, 98941701, 80542263, 97753845, 114908941, 8496074, 70914604, 64004504, 43669997, 95059312, 125882213, 102576414, 98822257, 126295464, 93994987, 2655477, 54500533, 127864878, 120212517, 64730322, 66170458 >>,
       << 51760093, 12746915, 87327774, 5831593, 56705907, 101403862, 84443038, 97086617, 49691975, 110799657, 78114875, 22420823, 842074, 85201958, 120642135, 125403968, 72239506, 70148449, 13482325, 114930720, 87803786, 109148360, 35755742, 33200403, 103391208, 10074430, 83372014, 17104124, 62691608, 81429734, 59672487, 128382275, 54995923, 15673796, 61826632, 123241521, 67534062, 93253613, 14853741, 47290715, 130182738, 79647594, 56237127, 77786608, 114518430, 71570396, 86335755, 33145043, 72614177, 92983237 >>,
       << 40118830, 46968623, 88683176, 66770443, 23916938, 98572752, 90671717, 2232886, 132966248, 96125458, 110314710, 98231852, 20223295, 94153092, 52450843, 50582687, 49477949, 93406299, 127955266, 110323659, 53586934, 71654359, 51602986, 102504678, 22926391, 82092334, 116752996, 47499904, 77141121, 111324611, 12643416, 18571145, 43442625, 60158717, 27399209, 41345488, 82777798, 68079231, 79614817, 75900715, 119602642, 127832198, 21811407, 46094205, 43775151, 29999769, 80845239, 36618450, 90081902, 58405557 >>,
       << 84325586, 85424475, 1212316, 102541844, 59637989, 99076052, 39978296, 118996690, 18321214, 77756567, 115649131, 81581531, 3016518, 59733842, 35986064, 84208414, 63777515, 19155471, 102654037, 82858314, 55298473, 56780992, 79224116, 132669225, 133817205, 40871016, 8446205, 102605405, 58770286, 77053633, 83045325, 53198173, 65019257, 2898255, 75488864, 516367, 74255393, 104937710, 79898336, 61375663, 41203973, 92073583, 91229892, 66844525, 34213454, 75047838, 47237034, 92017517, 82920642, 114166703 >>,
       << 76635447, 38148252, 54442482, 37017197, 10102295, 127991142, 68324734, 25976666, 107740288, 81639621, 107640290, 67654908, 113679716, 40569855, 15105475, 55157243, 62014406, 32552076, 38785602, 112594674, 61516755, 69657329, 126664476, 84545592, 46085359, 27683464, 53508312, 98391813, 78050960, 71999061, 108505270, 71567304, 14336847, 133847488, 51112881, 39321404, 104207413, 78420719, 71632564, 3751973, 35597373, 38925256, 42417781, 1325577, 106345435, 81192063, 22369436, 88970427, 85900652, 69091214 >>,
       << 108206807, 52948689, 117553024, 1330468, 43844504, 129500321, 22937991, 15873604, 112164985, 119135647, 132417220, 4214307, 22015250, 53481951, 18728874, 129007327, 61563112, 5245835, 53245195, 53715916, 38906764, 74205887, 80776162, 121028394, 8215004, 2426412, 112725078, 73063326, 24043964, 36313891, 71758338, 111879042, 33911809, 48126351, 69804420, 14008928, 103370795, 29721110, 73117, 74662900, 117743820, 72427103, 76924796, 74563921, 25495179, 117431657, 89352149, 107977879, 5522926, 44275746 >>,
       << 64755706, 40952683, 89490648, 109361076, 72592611, 73962723, 31804392, 83061227, 79860137, 98904150, 63582537, 35153165, 111858068, 114703871, 99792602, 133525629, 14225241, 74266992, 46658509, 55833774, 132103529, 116164599, 31750868, 1955403, 20049084, 124212378, 128866647, 60005818, 105804209, 49735453, 122835873, 1707969, 6340888, 84808, 28568789, 6163850, 91222024, 46293495, 96664124, 52395558, 101974910, 91110370, 54129615, 13666386, 79480231, 119266481, 116694094, 104495786, 80052851, 47766876 >>,
       << 86577053, 27287237, 2320274, 122293887, 129955098, 127549196, 47974300, 51996292, 39296782, 13031387, 74887875, 35038777, 102979104, 75877745, 25713686, 110792442, 58824263, 131365321, 72660418, 89250285, 113369786, 120420501, 132946341, 39485474, 57981146, 60240339, 76434610, 6950641, 67465025, 102162510, 64404694, 122672400, 96772776, 122442296, 2618007, 87728424, 15879991, 71245386, 63364738, 21742665, 55625918, 117868246, 86266975, 107863523, 4686812, 4191620, 15166412, 84694525, 100679433, 27386444 >>,
       << 57408518, 49977478, 119259913, 92332689, 16492036, 6389494, 30994389, 36424452, 123337232, 39678304, 40670131, 127465760, 130047441, 33831592, 17653215, 80725652, 79900619, 125915353, 5807045, 52800537, 64954396, 36810385, 89290377, 46029177, 128136610, 56631756, 74977524, 121116318, 124705130, 53803762, 109857237, 123016715, 50227662, 22123737, 40383896, 126164465, 5183403, 50711458, 19027158, 105682694, 104437332, 16917610, 15680543, 43433833, 122159767, 46196801, 82044858, 80175835, 58544156, 117070432 >>,
       << 64114036, 18378033, 42335811, 125149830, 57105644, 103095107, 23925710, 24727844, 126022488, 114770705, 24266570, 16761671, 81737041, 1062252, 44531458, 31663551, 28917860, 125073492, 85255405, 86908165, 88571153, 39580165, 58999002, 106451864, 3945942, 34711361, 66961753, 41245534, 64478238, 120898843, 52183535, 40745011, 72636467, 38731706, 91903481, 105423645, 43712070, 49978040, 80166601, 29908720, 80635631, 58662999, 43789552, 22913980, 12937099, 113830479, 110607417, 109760729, 31106335, 71722941 >>,
       << 30229076, 41948384, 819619, 65645744, 111459327, 10983796, 130117263, 18411972, 38583551, 44696776, 97798305, 46667256, 29281122, 13640196, 22310226, 94155988, 111253003, 115675919, 120724929, 79984645, 7564055, 446180, 99458332, 33438582, 52933653, 17143066, 88370567, 24808116, 127037731, 12268114, 124892048, 116624677, 9125390, 124727959, 96251713, 104573421, 63391224, 31786590, 123901177, 104528892, 85911762, 19218151, 85001070, 130179191, 62185010, 66391266, 21079288, 57122888, 103669893, 36332731 >>,
       << 71950326, 86239997, 73226213, 98181127, 33068667, 82877501, 46507120, 74582785, 43081879, 95612078, 90611296, 43114614, 74375928, 43583719, 22947096, 24285978, 78444347, 89737085, 40973161, 22858779, 91438222, 112970813, 46476289, 18782845, 95670752, 115322199, 41960195, 13610100, 54503164, 15523106, 131197609, 67425226, 43982040, 65666498, 49424791, 82536894, 11278771, 60213653, 8933547, 7346961, 45095578, 122975241, 7009579, 71013661, 114310484, 85460732, 6330192, 48757651, 41408024, 80434851 >>,
       << 12448176, 34671976, 60161332, 60949346, 41239244, 36137452, 63299218, 30913171, 102634386, 49139993, 85715276, 28833181, 47864995, 103666721, 18944305, 39938244, 58835737, 117285495, 70991030, 98220551, 99770734, 114511187, 98280753, 39701147, 15050502, 111839180, 105960965, 113293782, 61907135, 15982981, 47836153, 77924257, 40302933, 94264846, 108149645, 131530997, 76648532, 61667990, 26768222, 34890901, 38840591, 113736824, 120970708, 80937930, 27269624, 4918680, 44744169, 31053688, 65542595, 68524204 >>,
       << 71714625, 4064806, 29829291, 26204095, 16751951, 71115416, 29229029, 56543954, 11159651, 117285748, 105698515, 9213734, 92392912, 26983030, 32164731, 110796504, 86477790, 69949667, 123271489, 80648127, 131587468, 24457130, 57327614, 125673305, 5024382, 68850990, 63677489, 67917874, 71799490, 119403371, 23499185, 108996211, 122622482, 74734631, 9169403, 47328710, 106623085, 23365734, 64413640, 72921170, 63782658, 26346840, 1294218, 38284400, 111026236, 74470967, 58357188, 24689953, 42408734, 91841327 >>,
       << 8401342, 42072014, 24365789, 16405048, 59749751, 92812834, 41034327, 54840518, 43850908, 111633210, 88703668, 28549035, 124363754, 43947932, 97836475, 30390409, 64777625, 109007316, 108149558, 105260109, 68700401, 6711227, 13626745, 68703915, 75769270, 115893920, 14412290, 47813783, 57023177, 92014181, 64205221, 25231795, 39263700, 37475780, 116683058, 51206200, 66647695, 11760471, 98679647, 64315902, 59417259, 99630726, 50855083, 125294311, 21821826, 79522643, 108591828, 53350270, 79034153, 125110040 >>,
       << 8765008, 132464432, 41660060, 30129718, 28172320, 109203923, 53157438, 18327661, 78874493, 81148201, 77254618, 34487584, 119273766, 50475340, 84437041, 106550995, 57715183, 35164121, 130415176, 121605984, 45829321, 7067675, 81817970, 78858543, 77190704, 78629743, 106071816, 3891393, 92542282, 4956822, 15054603, 6472544, 71439530, 79937042, 74370524, 45672189, 64382977, 30584869, 77502610, 2276587, 71308766, 121590637, 31400578, 111757775, 124973309, 91772462, 95142953, 45685117, 21974909, 12777482 >>,
       << 94525753, 11406410, 72518184, 79785859, 54975413, 89063008, 70070676, 38991508, 121413639, 38586233, 22844016, 87315490, 39568600, 52326451, 37169633, 98800697, 125880526, 69068413, 104217245, 69350676, 39935250, 83114754, 100808596, 126052333, 120922657, 112658674, 89924796, 82553587, 97200095, 61447718, 78227316, 49756143, 58792790, 22910504, 75301514, 122250695, 117687702, 49786086, 110580001, 104036230, 119431355, 65804038, 44103061, 85242946, 95291735, 76640291, 46778834, 101231536, 69779701, 16967591 >>,
       << 126895863, 69566756, 99575764, 14919894, 113090115, 79501960, 6891024, 24045121, 19254771, 9590810, 59204430, 100018032, 78357247, 62110699, 98130349, 72318275, 81765803, 88628416, 120419343, 88929256, 113511737, 84718240, 112553865, 9929251, 110058763, 18476277, 40163276, 70976519, 72537690, 25170042, 85805091, 81662882, 121776269, 115411018, 60646711, 120623309, 10999047, 62024978, 1931219, 124316521, 44045721, 100745539, 77926745, 71017405, 40164480, 122930564, 129585371, 35257940, 124210526, 44121590 >>,
       << 108835167, 13271654, 106019598, 35685256, 106676925, 124280897, 27663707, 57103476, 66617592, 102079216, 117285978, 21458188, 70205573, 133535074, 52508472, 131807521, 70245541, 14067515, 11140095, 24457853, 97458103, 29210851, 85657126, 3984241, 28174991, 70888853, 67481652, 45864749, 100929785, 58306519, 113940285, 71991176, 15311147, 104067152, 10994583, 77594255, 32985575, 81839877, 132348275, 132317211, 65992723, 111976797, 72312564, 10708745, 36923597, 126870649, 123001903, 45172233, 77368164, 1524245 >>,
       << 119119302, 110201636, 3041899, 99037717, 106693271, 82838528, 88139596, 123066902, 116295142, 129663842, 113240844, 96654935, 76887786, 84594084, 113537884, 22404154, 111856318, 14142004, 59766468, 62815282, 77456003, 6307438, 49715122, 42362188, 19838314, 75198705, 115620930, 57072792, 124099277, 56768523, 78544364, 27880490, 29663615, 110476308, 105940554, 50152980, 12003127, 84289287, 111274403, 88180101, 42021016, 99926913, 67725267, 72271017, 100778452, 2773948, 101273203, 96893435, 62368219, 129008040 >>,
       << 100529381, 1595678, 103186884, 112224075, 89783064, 42737194, 26193780, 16983445, 90373433, 52957459, 2681024, 100143712, 99913449, 16312537, 16355844, 77265558, 32364070, 105664893, 78449326, 10713289, 1400593, 33369182, 128651174, 115111700, 71489497, 16864487, 114465076, 76974571, 132172098, 63660887, 41255009, 18039011, 86747374, 116251284, 42298598, 46917382, 16275588, 32661791, 97107458, 57256197, 5672381, 77036650, 7928349, 92621566, 71285557, 44035507, 110911058, 71808026, 107052207, 13564624 >>,
       << 114834709, 67416019, 96258117, 16511054, 5733311, 38038252, 43988555, 8186816, 118020280, 18203817, 40176313, 28477970, 95916504, 61879545, 27727245, 53748955, 9352129, 121571313, 46070372, 125180335, 93571230, 106713128, 105631740, 71260169, 66597407, 27600745, 50883906, 101673418, 53963175, 18771812, 122810913, 59038459, 10585201, 29129670, 92638031, 46798897, 68405004, 96720580, 80474782, 53813689, 76282637, 32929786, 28049598, 47409708, 32479950, 107170057, 83038086, 8100528, 94531493, 954878 >>,
       << 84105033, 44810387, 73088622, 43185509, 130919694, 117281480, 131073300, 100834523, 112951486, 130324560, 57740709, 12126246, 49220063, 84942254, 128262001, 39177990, 60446666, 89343256, 33059203, 11535774, 87330311, 44870630, 115531154, 51785761, 110113748, 50408631, 32132903, 78488268, 65410125, 76249067, 24956094, 47924903, 46535615, 106012396, 117738575, 15527671, 13591154, 50980034, 38946940, 33030893, 52732451, 128381779, 91112720, 82335103, 5715975, 88587007, 17988386, 112517293, 68190403, 122274169 >>,
       << 32210133, 63288596, 65251163, 24388806, 61328876, 3781320, 114791096, 21261155, 73108701, 79792619, 56616286, 133783998, 102771765, 87262584, 50762529, 55010375, 628942, 46052172, 122690115, 33470412, 39592252, 23768506, 69959650, 11033610, 50695510, 108345641, 34210410, 34416747, 9219147, 109655912, 94596034, 91665024, 55325710, 10273481, 4692509, 119896877, 14071803, 83678289, 134107129, 93491755, 61985395, 128701329, 127344396, 43396592, 85175374, 119674387, 27479430, 44931009, 71861944, 117063680 >>,
       << 109808258, 85203223, 123352281, 40213388, 54974875, 111163885, 35648360, 5751725, 130904281, 50104145, 129296576, 16702017, 5029596, 25354987, 89829082, 75190987, 73398701, 164070, 18168908, 65822380, 131550716, 28721683, 1110324, 35441367, 19154201, 65311205, 56330969, 27988506, 56669500, 18028246, 125309284, 115053458, 68331604, 117086510, 13750417, 35339141, 85061828, 34784276, 90789194, 36317732, 60839237, 15577207, 70983534, 101331408, 77713623, 30858901, 79453898, 42545479, 106602018, 28375588 >>,
       << 124361450, 2900141, 77221427, 55265685, 77193004, 107010154, 6026859, 56155232, 66477652, 53973235, 34913752, 93304476, 101491615, 115502891, 123137078, 88486477, 115463090, 81444950, 84113736, 129545612, 92886104, 123462320, 482349, 76459518, 23313673, 23237546, 67868041, 72018689, 102479445, 115185148, 37342004, 125961254, 82364868, 68336622, 60981119, 102711561, 36188108, 116926292, 42936392, 101253692, 128972006, 47057406, 15017061, 114847240, 94880104, 31826980, 111556158, 111593001, 102934157, 44110827 >>,
       << 72160493, 100477619, 119823769, 60891160, 18224724, 113529179, 65895533, 16547150, 60869451, 35686084, 119221042, 26379956, 2855211, 86141406, 129900645, 57018138, 108185407, 74194995, 128829629, 75155304, 132220475, 16081719, 105875800, 14181221, 101677842, 51505711, 112627963, 111682625, 110160667, 36371543, 104107277, 96749949, 102766032, 111266483, 4713027, 27258959, 40945382, 127119090, 27952799, 79275381, 67629198, 102006370, 70157948, 120949750, 8724926, 68082899, 66225398, 27587974, 73601876, 63068008 >>,
       << 59483614, 87496479, 100316060, 48203522, 129090688, 68715354, 29856021, 98287386, 31411837, 28782865, 54318314, 38113094, 102137132, 63739506, 60331825, 1868922, 111320196, 33697896, 12655804, 31212087, 96295868, 1131286, 81207477, 1671866, 83575856, 122560155, 15128630, 126443778, 127710035, 46856297, 25904207, 68806863, 110851046, 85485363, 117218738, 56254829, 130100549, 3112785, 25003381, 73142099, 17141790, 53136530, 17883205, 46799147, 35501578, 105699723, 22395401, 130176222, 5304180, 123994323 >>,
       << 35160491, 9102656, 87940633, 113733740, 22868779, 115743522, 116754756, 31224916, 120049527, 11407502, 82035634, 4677515, 97195267, 87560003, 47794863, 60426196, 61985141, 17978533, 982850, 36041613, 101731926, 37513650, 8896589, 2641440, 7596334, 94928990, 92629194, 66403941, 92538700, 79398528, 112590642, 94510016, 36522173, 13382149, 75836526, 28869089, 21415919, 36335771, 49825836, 133926560, 104794935, 32238832, 112768217, 73932265, 86335090, 10104361, 7985583, 83400769, 64789740, 95910242 >>,
       << 82694983, 41549296, 13259460, 128144576, 85133201, 123963081, 19386792, 19353979, 100750920, 37184732, 73012583, 127791116, 62493934, 3779742, 78837038, 98004413, 98700859, 74896302, 63709054, 20270011, 99912858, 52314659, 131931138, 34327434, 116172174, 125265650, 77086107, 54609682, 27472503, 24606437, 23817750, 50089292, 10486245, 133124629, 66573189, 113008898, 40070341, 106495180, 19347898, 24900364, 38871146, 1877542, 35569674, 111720384, 119463696, 93133307, 86662531, 90388788, 28720570, 23137974 >>,
       << 56266221, 13378659, 14479716, 71614472, 111190961, 83464229, 6928010, 4757486, 25826028, 41000665, 51347932, 70577112, 57931211, 13316648, 92280361, 51201714, 28871875, 6745852, 63738810, 1610506, 20039953, 73303729, 53600694, 60216892, 93208651, 87617026, 22794897, 7528345, 125392927, 124818067, 20326795, 104560446, 4717473, 4267792, 79800065, 44992623, 104613698, 106357147, 31735204, 52468894, 119891664, 107721490, 55580175, 96830266, 18192133, 9405769, 76670701, 48370857, 26386383, 54931310 >>,
       << 128639126, 72974361, 78301601, 4184542, 1339009, 45494998, 62390619, 63860268, 81190343, 42008603, 4029896, 8044003, 12855332, 66428759, 32667925, 18328973, 44766759, 128220202, 107097872, 75576096, 129613637, 1654134, 3489239, 107176890, 61927371, 29016246, 82588991, 61938680, 12009163, 25435139, 101016991, 104514318, 4644911, 87825168, 60595412, 23040510, 21508083, 12552604, 14650815, 27406435, 72549495, 109118600, 51093299, 76017113, 5537346, 99756575, 68359248, 63433176, 118728935, 10142901 >>,
       << 87924151, 52324453, 66520220, 19130730, 24915893, 16099456, 3348963, 107946617, 110545401, 34075978, 42441437, 116788049, 123755365, 95287234, 103813920, 37490735, 99788399, 54695425, 106347038, 15015562, 134055809, 66569035, 14892710, 76434234, 22439039, 73438256, 108413440, 133252702, 129441327, 9180850, 63613967, 111969071, 844050, 61040634, 34471853, 41123406, 32867023, 54634979, 7220051, 131969632, 131314702, 19421271, 110736680, 30277222, 101948601, 40471259, 39344015, 115001580, 105564722, 124912890 >>,
       << 121116933, 17682464, 24651384, 48391653, 19357510, 12461172, 86965812, 53326235, 2066517, 19336846, 45945576, 24304645, 28813033, 122321942, 78881524, 36222425, 101378517, 11043725, 19047652, 128090669, 98323663, 122656533, 125697481, 89163380, 98036033, 2284070, 78294709, 36453156, 40948608, 99577181, 110500494, 59871522, 107083775, 113087838, 63680989, 118554778, 24198721, 50442729, 82815569, 3033850, 27950053, 90516830, 24512392, 56460869, 86107758, 83954520, 47395265, 42386800, 12666580, 30151918 >>,
       << 123876152, 17522122, 63125920, 54891734, 10590155, 87448980, 62494282, 80890057, 109835894, 40279806, 96663620, 74784959, 3235511, 130259826, 130281737, 90882479, 17976656, 36285546, 127240902, 46297922, 111019702, 92884277, 48196283, 78429608, 72484270, 47077616, 15025239, 51306730, 4973489, 17637986, 14196034, 14267429, 77171497, 89578903, 14823020, 42905265, 128189019, 124841391, 72078150, 78039848, 123773890, 112956789, 12202914, 22914929, 108102071, 57695778, 72543688, 118224641, 54304950, 133327558 >>,
       << 101662957, 94370993, 38323962, 98315402, 81423225, 107687412, 71921995, 118768750, 55515657, 34265686, 64286197, 74625405, 57439802, 106188195, 117951636, 121910085, 131622594, 68946993, 90525094, 56546065, 17032459, 28708354, 62224542, 50918068, 134100592, 7890314, 121850182, 1298102, 67135692, 70533952, 36136013, 41870770, 61228317, 34737951, 3172317, 68608323, 100556114, 30966885, 58830582, 110174551, 88227915, 74825073, 131053092, 11887765, 131093231, 75773305, 14701600, 76757382, 4365968, 65860061 >>,
       << 39134657, 83176232, 113597962, 76135513, 17532794, 11509711, 58677738, 40369409, 5853516, 6758118, 54178854, 76675984, 98915385, 97455443, 102554597, 71012790, 125264058, 110579273, 103151012, 119954925, 126485129, 130793204, 27058295, 52752683, 81594909, 129110440, 98027562, 83930001, 17160749, 111884666, 26491961, 105417697, 43759724, 131486050, 30931982, 37393393, 72522192, 36106651, 68432453, 58659357, 36295026, 60270117, 126775208, 127585215, 5244248, 67668509, 21168865, 15739492, 30064964, 77052284 >>,
       << 129582411, 70837978, 55058585, 42756551, 36818748, 57940915, 25164704, 19868814, 95887278, 114847823, 1305716, 22571736, 8847372, 133931988, 22347212, 26749842, 99788238, 97556533, 65990558, 92116207, 126003659, 99662519, 19915816, 116262070, 1952172, 48221693, 121153293, 44137966, 199996, 117930303, 27935718, 102188344, 29233159, 265528, 8181846, 2767728, 2439233, 73624294, 69658618, 50587113, 33375495, 106472164, 39150077, 99828022, 95874039, 133421002, 54130831, 60859288, 32114637, 79690930 >>,
       << 14929023, 82166272, 648171, 450795, 69277550, 69939821, 76737279, 103095045, 104440843, 76252866, 134120061, 12077084, 16283037, 33839318, 15986801, 54518407, 107148860, 355692, 3106154, 77798642, 128170544, 114873458, 114138048, 12394373, 51604447, 76197740, 101061730, 99506677, 84258614, 20437080, 110112221, 31554178, 18637972, 92007726, 66366924, 27050445, 125335038, 61303454, 99611640, 111624749, 78110995, 90362638, 71394776, 126845276, 103795182, 77466401, 97543497, 61717488, 99322814, 96148327 >>,
       << 82916480, 6003481, 52103937, 1195394, 72716080, 106724126, 98389011, 45209685, 40292372, 72924070, 132740255, 113097927, 127635003, 11032763, 126540842, 114698420, 116313187, 122103366, 73499395, 57077082, 64428388, 134214364, 34629948, 52144644, 32875807, 5453328, 6799765, 3094747, 123662759, 80091105, 109513028, 112898250, 130518799, 79119532, 69128839, 37222605, 91844778, 29409531, 33425740, 58325929, 15937106, 119496542, 12989735, 97041097, 112076184, 32791876, 127921877, 59816708, 11070537, 124764655 >>,
       << 12901181, 70248400, 118431102, 11430379, 42726974, 12410699, 88872644, 81084829, 74530562, 86672678, 49577347, 93187755, 34780900, 44255086, 67276435, 18994710, 101902069, 76951198, 129231908, 108025925, 41479441, 20143561, 130564107, 2438885, 25382259, 85352002, 34866307, 108034514, 113798436, 89218645, 1615752, 9182316, 48723563, 27307038, 43478750, 102359692, 32101325, 37276838, 55414868, 55179030, 4022683, 59925222, 43171352, 50339944, 126627667, 77142195, 81498287, 80158913, 33605818, 38035096 >>,
       << 78115343, 119530385, 94496479, 36686837, 115860794, 54280598, 57974332, 59272797, 19900441, 96115199, 7203266, 12816522, 7859815, 73891751, 18515091, 35835671, 118277302, 86431172, 96773362, 2151775, 108731568, 18693730, 94803345, 103346445, 72353403, 122171665, 12294633, 92438209, 68047801, 20428950, 123567620, 18491548, 87592940, 29862398, 68899184, 59960207, 80055976, 123808135, 102952770, 38787039, 129942354, 151477, 20037607, 128979533, 119545437, 52490143, 18889590, 4520546, 71253299, 46526658 >>,
       << 67215850, 119083682, 9398971, 66690193, 35175775, 92452818, 43588773, 121444831, 18245984, 62756047, 30521314, 105987528, 122506252, 48118532, 85519976, 130317228, 25857500, 55242115, 41818625, 21443889, 127645752, 124896591, 29832464, 46230062, 133646735, 60993072, 2334965, 1130283, 39548494, 11702433, 21403749, 83182100, 12710585, 133209800, 103560993, 75163764, 127562913, 18721927, 74042614, 94116088, 44562374, 14385841, 73679097, 15595477, 92156393, 56193324, 125932214, 9320521, 84334607, 23714848 >>,
       << 105535638, 84764758, 130802267, 43938049, 46432833, 75760648, 2402352, 38502327, 89329766, 116269806, 119756339, 53362652, 15357495, 118563852, 4255661, 8164767, 62364034, 80747404, 23205311, 29402174, 7433165, 35500881, 57239907, 54814320, 3158362, 7218512, 11442470, 17151257, 75370985, 32521351, 70111528, 19236657, 61509466, 11632103, 3976162, 12043500, 97093947, 117974523, 100077785, 121785859, 23592931, 26911168, 132017790, 121343499, 17066088, 76208598, 98651116, 132903090, 124182302, 84174205 >>,
       << 57339920, 9213212, 47089952, 12022056, 16789758, 3941312, 87894352, 121393147, 35499509, 127037602, 71451022, 96009984, 50232496, 1547308, 66808013, 98707547, 57630840, 58415071, 100855240, 43634492, 30116895, 128274605, 109373587, 103603183, 119615575, 98047817, 122600700, 130668165, 101189349, 34701832, 41883522, 51249115, 97362358, 6174484, 130277772, 117483362, 40998348, 87924901, 23851074, 119968322, 19371183, 131327940, 59029762, 56232116, 132550173, 29361875, 114370983, 85095796, 40244616, 51381143 >>,
       << 110758807, 129707056, 3376007, 14370816, 83488692, 11826271, 44680584, 31755622, 918529, 49117104, 67004252, 96526503, 99793791, 107179510, 84009764, 131940797, 27508972, 129391107, 98232478, 41490410, 66010706, 113460190, 19985122, 34825874, 31524851, 46938936, 74938356, 128996997, 56620520, 11150024, 65923591, 134106745, 55006761, 71774011, 22693121, 21901903, 126191676, 42661147, 101584338, 13630720, 100589912, 91186040, 16940639, 110870575, 61585442, 89681400, 127871116, 24598469, 52914143, 60809112 >>,
       << 132454863, 509134, 68368892, 52611284, 113723219, 56144019, 94434569, 108614330, 51999551, 125486516, 47121480, 125075126, 93790002, 105115522, 53712506, 127869705, 20487363, 114880406, 17451259, 37052406, 132011870, 10279520, 128364850, 124365852, 83403051, 118020474, 59314812, 118631577, 133921078, 54864149, 114393935, 73253030, 59323945, 68536500, 114925171, 113321260, 36180065, 106046354, 83690835, 39386435, 63525919, 62690620, 111383176, 10807157, 88904677, 21427013, 77602153, 8065079, 85780153, 27876148 >>,
       << 48533885, 2019270, 4898870, 55402520, 130857885, 125178080, 14610015, 108216584, 68485923, 40709319, 67189199, 75916943, 64877175, 133334806, 40444791, 130668248, 19538668, 16851582, 31580556, 42037932, 115976789, 36490475, 108943862, 28115244, 41285310, 7200455, 41236861, 97449882, 56274290, 117937806, 99176257, 101186748, 50788484, 73508869, 20449463, 127167845, 14826072, 20242166, 11660923, 45134525, 106116549, 85523296, 58092604, 113209517, 33927264, 81148205, 99086880, 100825694, 47819136, 21961637 >>,
       << 47904616, 34464147, 77152651, 105448791, 23094514, 2307458, 130177312, 53642721, 88573608, 92738595, 37099427, 107512406, 37990986, 86277583, 109838464, 11803296, 102866471, 16606060, 13566103, 90003806, 95329141, 82202870, 66177073, 103899294, 26248260, 73377097, 73877630, 10778737, 71295976, 19696682, 62223246, 33430634, 338423, 115048017, 89750066, 57584035, 31340071, 41167664, 30245603, 45280118, 90887979, 78753507, 105891750, 38587625, 67168294, 117364211, 115964127, 67469937, 108218620, 23994116 >>,
       << 97175736, 8693668, 70898513, 69366029, 37208837, 78743726, 107558161, 56341306, 72053491, 3113730, 133287924, 54378553, 54378528, 34852366, 116255549, 103902169, 2454378, 46616057, 113647820, 13198915, 109596650, 13523308, 133273279, 5871005, 24393379, 12228312, 21608767, 109411276, 117864996, 49804167, 41741993, 26316515, 88115484, 100629993, 37442168, 11040982, 107662378, 97469904, 25030010, 33169838, 115855381, 3933599, 15899950, 95057433, 53881516, 6839427, 41735721, 82047400, 99854523, 127649359 >>,
       << 70852543, 56892740, 562544, 110567978, 126965687, 32174333, 66662088, 19096178, 13486212, 95768371, 97976362, 86148994, 117077460, 67811681, 51680611, 7096276, 132533871, 7845585, 27197311, 21898382, 8386188, 134150956, 93800389, 27064257, 14097501, 79815860, 59957986, 73921592, 111141937, 79487318, 83603906, 81119963, 122462822, 128576068, 6643596, 10761833, 12007848, 108392590, 37047110, 4353181, 125944332, 1772524, 28166476, 39971921, 123343888, 125733393, 63732465, 109158122, 15673469, 32306457 >>,
       << 14352951, 100691810, 92591287, 66623262, 100332924, 13274325, 79147389, 110412290, 62630658, 102264189, 87541037, 74460758, 55692422, 6118607, 104780328, 100557937, 14087799, 118732505, 84602930, 101692799, 52070271, 118662710, 124461824, 20882678, 102080583, 132566154, 126152148, 47617569, 91770419, 96004464, 82790730, 131233972, 100831853, 132959341, 6835512, 96872791, 68092243, 34677903, 13223422, 78092493, 86974990, 38238005, 113467801, 131289460, 85380264, 62633954, 110256589, 70314452, 44111562, 116411827 >>,
       << 48943645, 123650028, 1265080, 84380849, 16170596, 10340310, 27653284, 128608019, 58726901, 45731485, 29991874, 45324942, 71150044, 22232961, 94780372, 16022893, 3037859, 63424351, 123832494, 22342927, 74908485, 70931992, 90730608, 116397417, 112356475, 59544431, 70140337, 99948905, 464811, 63306993, 18468603, 104607904, 62811481, 80362099, 102066246, 7548149, 95973577, 30426837, 62806952, 15025823, 126901977, 55767703, 14198037, 57277680, 3689695, 74158624, 92645050, 68717559, 14907320, 104582082 >>,
       << 82620334, 63079869, 130989517, 112043557, 20753916, 17418572, 119958071, 27219705, 90844746, 79956438, 117992853, 101759597, 78930579, 85059580, 132586195, 51566086, 33730822, 64575071, 65821716, 104004503, 16188599, 71870081, 26570477, 65117698, 45479408, 112407517, 30425150, 5411441, 60050178, 117884324, 56267470, 75116051, 115868978, 14232767, 120751703, 121190322, 936049, 24435837, 107141837, 38493103, 73421108, 2003112, 90427370, 97011878, 96142578, 73691032, 49168839, 105277450, 47230948, 62481316 >>,
       << 116384430, 130228857, 67176147, 4224882, 1977091, 22778954, 87420280, 34479616, 89809064, 116517976, 39347299, 26058996, 107159776, 103083559, 18113144, 28626933, 117620224, 53051082, 129387066, 24994420, 21779411, 130228491, 110627688, 16313047, 52439278, 78528134, 5107177, 105943691, 133320374, 51600243, 80861459, 89776851, 102464277, 51328440, 74019202, 47299880, 113671132, 61188911, 34840452, 53473790, 89440250, 63372216, 2674033, 52201776, 107487867, 59389198, 91568737, 91622267, 47849601, 8897725 >>,
       << 58643840, 83180597, 92622787, 15890596, 33005188, 77586461, 114045402, 131874654, 122727439, 125026220, 48946134, 93547267, 100471070, 126111385, 117772281, 126610523, 19063958, 12004794, 43198521, 7371064, 98757388, 15494104, 112572376, 54569208, 120077772, 40022624, 110521780, 19487289, 52129520, 9757579, 592144, 64470508, 124519644, 1294689, 29203847, 26524771, 48852391, 6230475, 131429371, 126301158, 128176744, 109168690, 87077473, 70153155, 102924026, 34631884, 119827981, 104927374, 21010543, 37858700 >>,
       << 113888389, 28438227, 94330403, 100402591, 93259597, 15100330, 83215364, 72235120, 116192627, 29813970, 77562721, 18381594, 38729652, 72723098, 114793665, 39303639, 67563757, 8852788, 29580332, 3165537, 1371557, 40456950, 122523971, 14379674, 99131899, 57054128, 80622846, 108631656, 108647850, 10011871, 109259596, 2076385, 42465525, 115179165, 30686623, 6288197, 19778338, 13547132, 49432517, 122351802, 9565463, 50607732, 63924034, 96595848, 48953018, 102495457, 108386553, 95872656, 73826394, 132763043 >>,
       << 52094564, 93722345, 39030736, 54261526, 95685849, 106594098, 32892474, 31016159, 89623431, 116465548, 125589961, 82472027, 115763027, 44291158, 31228780, 41588462, 73813122, 12175591, 12545653, 421479, 43735066, 2291899, 110083418, 15903665, 118173938, 102146946, 37062518, 122417838, 66930209, 56453468, 34839791, 103174161, 133362103, 20866574, 65845066, 67855697, 110093821, 108499572, 78545261, 105661295, 56973584, 114826316, 128735767, 16412074, 42957363, 63412327, 33122506, 74062621, 45226010, 43077396 >>,
       << 99919729, 102665605, 122727896, 115994634, 14920594, 18363097, 73284041, 103405151, 10248868, 121578825, 60269142, 121816999, 66126295, 44226861, 108337866, 13217836, 17983351, 31435163, 79493849, 49944565, 102686877, 75536023, 66806946, 68006734, 13215396, 45817390, 48624477, 34842564, 20772136, 50516941, 114632935, 126015450, 85831138, 6122267, 102331250, 90120036, 108997972, 80337084, 61989770, 21579010, 30478530, 98563056, 51452687, 2531451, 20603533, 39679565, 105598198, 39288049, 58402385, 101787823 >>,
       << 99072248, 113088613, 132979604, 49635288, 103576072, 37605606, 56754167, 103772330, 62085897, 62889571, 18971196, 4922900, 48063777, 8678230, 59262891, 13656066, 3666354, 61833109, 27323267, 8206894, 110985990, 67114266, 62256258, 16442080, 48540351, 51576393, 108113583, 35376362, 101293944, 87555419, 64516360, 71344592, 133534281, 86062734, 101017427, 30853990, 64579455, 89198346, 96993796, 8214317, 29059887, 13113424, 65320544, 42687971, 41190832, 131358908, 30638003, 71145634, 2140201, 104195462 >>,
       << 24925895, 119274902, 59364567, 39796475, 110238113, 9783931, 112814916, 40495382, 67545724, 113638950, 43529174, 94714474, 61608453, 90156590, 24302521, 51448694, 6685457, 21742956, 75513912, 23187229, 44604683, 34837575, 103425203, 100896941, 52939127, 91972857, 70877336, 54066476, 131703182, 19797191, 119923935, 60514512, 24955973, 74490910, 69282441, 111924899, 40299863, 133819329, 6132843, 60222807, 55917717, 57527165, 33644582, 18267938, 1380509, 59769778, 87604266, 119771604, 50633228, 91696564 >>,
       << 27766215, 19302769, 64187587, 126915666, 9072822, 115382523, 112049635, 94812319, 27719615, 126577938, 45400127, 27950280, 97526511, 73617061, 129774467, 123593972, 53806106, 63872605, 56045156, 92828813, 18570788, 48068003, 81032887, 16828265, 29244446, 119872065, 71003033, 57879700, 96909972, 67638983, 112192007, 63778047, 81521360, 6995189, 54551046, 120248459, 90170412, 93158192, 4054656, 107015969, 35332312, 69392239, 123282008, 125644774, 70238223, 133365197, 52799150, 79365865, 91190673, 31374192 >>,
       << 23671297, 7722133, 93136595, 44910445, 104712926, 49729857, 104343650, 31583718, 34857450, 808854, 46553839, 105791322, 3409042, 92248403, 70440993, 126646538, 111970318, 81065376, 103616469, 19433419, 63654820, 26845531, 77538991, 56119122, 99616895, 11248519, 128445438, 121440936, 43939110, 80018084, 114588978, 60313693, 57588035, 127714172, 34543935, 104221631, 1185755, 42180686, 25749946, 91511185, 88078722, 99034784, 43173686, 55229774, 60429095, 7754161, 98884291, 63577592, 67134583, 79910383 >>,
       << 118358008, 62192924, 67083557, 95385847, 45499934, 46206051, 34184054, 21311791, 58563783, 114157328, 10331334, 78745075, 94551517, 115783596, 3707261, 32378692, 111558227, 104858447, 70728547, 34852582, 19751826, 113424478, 24283701, 64002646, 28193492, 115469308, 54014743, 100606813, 112379611, 17480237, 61128345, 97796770, 27681339, 24194407, 8004248, 94780071, 23630872, 23547318, 126660322, 86364402, 19760210, 64712451, 13863006, 14283027, 102217098, 10067840, 112194828, 62382863, 111418470, 49793666 >>,
       << 87409137, 119052094, 65779538, 57166869, 81436242, 16199007, 130018324, 66010936, 14308677, 56765292, 22062935, 7678081, 104614372, 39530879, 21154676, 82783895, 118519740, 72906443, 49922138, 15303511, 38782228, 35997847, 112360332, 74153574, 54243868, 77460336, 74284004, 31230983, 4346230, 50304388, 23584929, 126164256, 13900306, 112145045, 57019882, 128225431, 77656343, 1055438, 27827407, 78452159, 114954516, 108242786, 24047950, 25122935, 3971230, 120593121, 24183731, 100244182, 55459928, 133533459 >>,
       << 128994121, 132063122, 76321420, 106664632, 73765130, 1867528, 12838644, 133799495, 131439195, 119518664, 35720850, 24747698, 91081259, 53354321, 36055931, 66498932, 111243043, 10392769, 8126886, 56680533, 73332162, 3392122, 116548170, 9590240, 60475414, 62351263, 118586472, 119059065, 101934769, 2593999, 123693870, 28996080, 108209476, 133921401, 10789101, 53695427, 123997169, 26040674, 59813891, 119063734, 104492847, 5279811, 119208462, 45960627, 91972817, 1446908, 126347509, 4415512, 39084913, 78289539 >>,
       << 26613296, 28008364, 24796678, 55468002, 112089349, 61584195, 24634296, 34065154, 123053543, 37535728, 50564531, 77520413, 30048229, 114462427, 15184381, 115833321, 108493546, 59132249, 21462714, 75591614, 37398032, 105028022, 59539153, 58147312, 131384112, 32435858, 122927304, 74518625, 715296, 72468344, 29835580, 128567526, 75540642, 4363594, 99513444, 53378193, 101499751, 124772565, 43633699, 34911314, 8169239, 20974708, 118242651, 46948562, 82648891, 97781316, 82241666, 109739589, 132424670, 73825346 >>,
       << 43627471, 14592917, 93802195, 81016927, 29391511, 99074171, 81162973, 30181048, 17075254, 62010916, 94048286, 21206894, 133050903, 101751886, 66203738, 24183667, 72600803, 115585487, 11677833, 21483603, 120099053, 76851987, 15820638, 110360051, 52025032, 29824343, 46716047, 87539138, 6409970, 40059312, 130854259, 103670323, 75593067, 109669866, 57611344, 7985912, 16836089, 111460464, 57773629, 96438967, 56342092, 60741910, 53033833, 86688768, 44443205, 110603837, 23037865, 60883480, 115831595, 22307582 >>,
       << 74217674, 86506181, 40764930, 47767782, 131161656, 27569527, 78935070, 65666288, 35537497, 83675181, 100518148, 84101071, 78703145, 50148407, 3140013, 60752790, 97010689, 76576, 67869273, 115314835, 73300539, 58364452, 40446864, 109530327, 374362, 56196405, 100419514, 66459478, 133374479, 48773102, 101138071, 55402833, 113613632, 116908651, 2912578, 22769522, 5985419, 73234600, 1372988, 89269195, 95948013, 123797876, 13862374, 75839021, 128826272, 113065639, 113339139, 23052880, 79862482, 6235415 >>,
       << 22267251, 24987417, 103568738, 10436008, 121348711, 49848952, 104237447, 110767149, 126768171, 40170436, 118395700, 109232839, 31970207, 83174259, 4372066, 37512892, 34768842, 72774717, 76829222, 122657520, 4643233, 78488055, 30221880, 23267008, 120628486, 21055735, 46774328, 128462259, 25827317, 33187506, 27687771, 23261698, 880540, 128500655, 22518072, 32840194, 47985641, 9024217, 5467628, 20664729, 108660994, 50229580, 121583571, 87506740, 108093677, 44477708, 46177939, 114555771, 130650951, 7969791 >>,
       << 15236678, 82972295, 118747287, 97896452, 30365698, 132783018, 45317894, 38074872, 44098683, 106866118, 96356720, 91664048, 120455326, 4481563, 30338081, 114798596, 54334037, 77966442, 67685146, 109140404, 74408160, 108519873, 75197111, 38230181, 93300460, 105141841, 27937587, 83722553, 25990060, 101341499, 104121394, 32964310, 25870212, 117460246, 21770277, 39532925, 114058478, 33056454, 52897118, 123364402, 21905860, 79469712, 57278051, 17751999, 972066, 108964088, 72129095, 3577210, 46549341, 75743176 >>,
       << 100209783, 99377345, 72258236, 134193732, 86585128, 30936036, 16434806, 16955135, 111622614, 129643329, 105852172, 36167085, 101020125, 36268695, 12142123, 21701972, 118071848, 77817765, 7721842, 59637099, 104699994, 44740105, 100845408, 80321827, 52723649, 42017788, 121825877, 117382231, 82104813, 80684112, 82515458, 17971391, 127691907, 7575494, 15824860, 19145211, 32578247, 129785973, 66627421, 53886874, 26586910, 10100415, 64575117, 61711396, 41471936, 78919775, 49888093, 37293092, 21481965, 8800190 >>,
       << 121656887, 1998162, 51530317, 24461495, 79899485, 104001822, 116361968, 35997422, 86022455, 12469732, 76015178, 27266260, 121022386, 60147892, 45888749, 83501427, 132336488, 106948693, 13125005, 78645798, 17775673, 24268104, 53086227, 59906546, 10202362, 94353805, 30746598, 13404936, 64641617, 49979600, 31154502, 96978633, 53792086, 17194476, 126722220, 56848213, 114752251, 127612961, 36784982, 63545725, 42748604, 20286307, 89627886, 114494035, 68276013, 84497483, 123186311, 53504799, 33806025, 51418159 >>,
       << 13809073, 120433446, 121561834, 19041068, 94116091, 3409779, 119501590, 83323819, 57139633, 16168609, 60205894, 108535373, 102871519, 30677962, 3550019, 605250, 76649314, 79603392, 21251926, 88562865, 99566293, 118025635, 71544236, 121116166, 36048156, 42332948, 117381446, 18445351, 36303495, 8198612, 25642547, 22309045, 94643703, 14212949, 8428148, 47490644, 92755622, 30906544, 115435278, 44542152, 47597060, 1333197, 42653730, 12628163, 36360358, 28170117, 96609295, 103601731, 18733307, 13471099 >>,
       << 78099509, 85878845, 14101916, 40199913, 31911980, 89414559, 112919551, 6626244, 69447570, 114266585, 59272776, 65110960, 123121330, 79360217, 61873766, 85592155, 18744520, 35021207, 62563951, 81264086, 130704546, 17025492, 50245981, 92935594, 99488756, 33732173, 115423158, 17621753, 20578989, 130291568, 12539199, 67339500, 73183047, 31711219, 95052455, 109875801, 34141277, 84326656, 107091655, 90651440, 43128998, 94007703, 125060168, 72437391, 106195338, 14691650, 79282514, 24203842, 98778042, 124509884 >>,
       << 130074047, 996386, 40602354, 103570555, 72844194, 64840922, 66120776, 5562968, 57904488, 66130323, 85100395, 51298527, 111335593, 77118971, 26611921, 129069460, 28047424, 118195837, 31471125, 101677135, 22837888, 79042391, 79130447, 132362481, 74918996, 57713405, 47552019, 12787594, 48045710, 117119339, 82880952, 126534572, 7671858, 22270634, 45673394, 62715910, 96155143, 72867033, 89323531, 38901145, 128853717, 58155333, 36901435, 7694709, 118570680, 69761721, 44767455, 85434927, 67572744, 105442808 >>,
       << 105278771, 48221378, 98682361, 70771894, 71189728, 25783955, 111339286, 99162381, 72677003, 23058100, 130548285, 103996932, 43035439, 93881373, 58685777, 95375313, 106533269, 64132712, 18116129, 54295203, 105835525, 23072173, 2414504, 99274957, 68171248, 35718758, 53405043, 64727173, 16821412, 88377293, 78450404, 104544690, 22586394, 48642195, 40955675, 124014197, 29085849, 115731052, 104708545, 85583659, 117426540, 42799635, 98933742, 50094372, 10757966, 105459647, 78598201, 52585179, 22652329, 74551122 >>,
       << 21343837, 23167793, 24637932, 116712566, 47024934, 1157338, 101331967, 14265941, 71576118, 24608959, 47334398, 97889834, 106812402, 89078726, 125336032, 85312753, 54456830, 22548933, 101593821, 118503916, 132722149, 40248639, 60025138, 23099318, 74151353, 55188874, 25327280, 79051877, 102069769, 33816429, 118220570, 24196785, 86720635, 1706226, 12165450, 114230245, 126938295, 22753536, 106423776, 21813769, 32975131, 123756546, 36712168, 11702378, 38584041, 76468081, 76960133, 23488519, 79728236, 1536077 >>,
       << 105771758, 1804521, 81266758, 94243078, 87929289, 56036632, 52938021, 22849351, 111598722, 93096645, 59509996, 5336155, 18036027, 55017100, 53486022, 33114, 35202115, 123287140, 111540857, 119702766, 45995226, 111136469, 112627929, 7061921, 129234633, 77941905, 48493738, 57755039, 26065795, 24845251, 8959477, 64050584, 112199829, 38257465, 86841005, 5279873, 2518334, 96257793, 31084734, 82479912, 10049039, 6697766, 98961929, 102040129, 11328270, 77164566, 29475021, 32965259, 49759281, 102410210 >>,
       << 26949872, 72308903, 83105866, 23841976, 18048094, 21518068, 39980592, 112253523, 62234124, 12568973, 11655936, 127458215, 79441626, 29822210, 51314322, 114377391, 776989, 93258213, 6278290, 56354268, 129532260, 2854500, 125059278, 70984616, 19269124, 61928541, 65210157, 88459661, 5002545, 42999440, 53683635, 37713383, 53718401, 14884380, 123945894, 91950866, 100443487, 56101038, 111528684, 112815762, 7367600, 63619420, 130945024, 58509056, 116810815, 17421340, 52468705, 37766210, 29311626, 95121652 >>,
       << 70561155, 95727871, 126083187, 47511543, 1385579, 1976405, 76831986, 43696517, 30637769, 62146678, 23281964, 26828136, 36423591, 56862582, 12097274, 59685669, 110885634, 57124503, 88454151, 19678081, 115076896, 29921345, 90368350, 14941675, 27593285, 131941232, 116413300, 118924833, 26605629, 105562338, 55078472, 15390236, 1668434, 86290472, 125742763, 106376167, 82841619, 34759064, 37998956, 95637016, 12502848, 129519785, 58421330, 40221064, 18416939, 125989005, 26850207, 96021535, 13306584, 52222696 >>,
       << 46837430, 37047016, 120786316, 109672977, 38615169, 15610085, 122861993, 100511066, 26390882, 61708841, 23981636, 62266558, 63064663, 88381347, 120092611, 52124997, 70244042, 48588461, 63969348, 127644004, 56401411, 120030323, 123290581, 100938692, 4247464, 56638517, 115246462, 92952020, 27974764, 106037254, 33689704, 81121888, 39234189, 24167344, 83708333, 130819073, 6040186, 109896060, 37237796, 118111534, 57521272, 108562277, 9322956, 63536185, 43995738, 115205518, 45658304, 13433419, 68665394, 73884042 >>,
       << 59241061, 2653862, 133950018, 11615559, 112191718, 113579188, 66359158, 83177753, 82610445, 75783615, 25338379, 23143904, 40235754, 93594480, 24528574, 5526598, 118407525, 22642542, 38524666, 75210503, 29419543, 59766661, 41292413, 35783614, 103548390, 35878961, 10438033, 103157388, 66600213, 22577873, 29396943, 36060040, 46352153, 57498960, 104811267, 44995300, 106854836, 26356418, 67240821, 110583963, 52173273, 76853003, 34296444, 60214805, 76540693, 102120295, 133873222, 1446903, 22214080, 48175495 >>,
       << 117325953, 39382420, 103711497, 71949589, 49623397, 100040160, 30251937, 50801453, 113020278, 102148434, 18363062, 56105911, 75082995, 76211506, 5564994, 37698267, 92370574, 62761616, 23213842, 26556319, 69218457, 58233507, 98508055, 94770844, 35731499, 8485147, 87622293, 1622415, 131433092, 128483729, 431228, 79942779, 45486864, 30485747, 67224265, 117359568, 45260386, 83996332, 118868103, 42003746, 64653859, 99578617, 126648720, 35959196, 23405032, 12263507, 52454278, 97457237, 37383278, 31468129 >>,
       << 43122422, 104720680, 79183946, 80987767, 2147945, 112102547, 107116909, 4362261, 78054460, 104825727, 29578165, 64015895, 71622676, 10422352, 35144944, 90189162, 57356745, 6698934, 40899457, 65596062, 113605907, 86911803, 85240472, 55105128, 98923727, 12598111, 39406327, 29813647, 61151032, 67805296, 128336984, 121672297, 70135512, 35154848, 37018238, 28491560, 61342391, 6875885, 53174284, 97675803, 50355335, 11053419, 72777174, 100991032, 60582159, 113177937, 87486496, 129254203, 114909044, 47164472 >>,
       << 117906283, 55785959, 34414393, 120272156, 55578734, 113961543, 62727169, 17632666, 91192435, 117687353, 52036138, 101336849, 31385480, 54241700, 74283162, 124099898, 108600287, 120974330, 129476578, 104978197, 9011856, 49357629, 88465799, 39853891, 118416012, 93148019, 11694111, 69721709, 50031940, 109585610, 69461592, 100199548, 81729035, 76672330, 4504087, 125947561, 8027625, 20018938, 60775326, 63804147, 124084666, 93385736, 22405926, 77425465, 113162093, 14763486, 1488873, 104296699, 69393678, 41347842 >>,
       << 44898716, 5504228, 93617443, 60991492, 87216300, 112911689, 112424517, 75443709, 51681710, 2742587, 38930648, 131035828, 31700602, 48766793, 55283939, 101052361, 118420628, 57499502, 4464913, 45293238, 120718817, 4899615, 30587363, 94742669, 33283131, 59620458, 35837349, 122788664, 57016466, 79475703, 68343137, 32970199, 28356720, 3630559, 53198276, 64833468, 86518373, 59060043, 89371814, 28318644, 2986769, 109712707, 54297985, 63216979, 94065560, 106227756, 119140247, 121435307, 16138711, 73550461 >>,
       << 125227282, 18205201, 24566728, 98636012, 24616876, 56455962, 55071226, 119165553, 115108033, 63803737, 122302489, 77126347, 86217855, 37743271, 104166583, 10909520, 82451073, 2166903, 103494935, 68706154, 60682782, 68194047, 86844604, 68057340, 57835480, 44170628, 29263489, 67428484, 101995743, 44223450, 90765111, 80234648, 108493311, 110924458, 6266737, 51970557, 63180068, 100855210, 27547678, 76858591, 55661439, 27427437, 40893447, 91232797, 109146726, 22704265, 93465948, 69127130, 93093350, 82935461 >>,
       << 116562454, 113792105, 67607486, 101460400, 64636286, 132528117, 53660910, 3230673, 99574922, 113257565, 42266854, 107215800, 133446898, 85588023, 43305731, 113838179, 2940347, 113258623, 90025960, 85469933, 40625466, 76638551, 18528804, 18656118, 111190774, 15830744, 93210093, 61124266, 7876259, 35213597, 86961235, 114950450, 75300766, 56718726, 102675788, 93973722, 102655400, 10435361, 73157391, 116006874, 53884756, 91643057, 97078138, 59429182, 3991574, 54644729, 52446135, 27639825, 25074424, 112600070 >>,
       << 8213084, 102345930, 9358752, 53984939, 102408934, 21858604, 77561798, 124947652, 129138569, 90753468, 120301166, 118065946, 1990453, 63695246, 25723881, 126635148, 108660592, 77875353, 78028056, 23798326, 102909790, 112337271, 68312821, 112649664, 82639155, 10749781, 90315632, 133572987, 76054522, 109575499, 72008855, 124888083, 21439705, 65838904, 16105863, 75410537, 20658585, 56194219, 94278280, 43333288, 129624193, 118590660, 103275762, 27390284, 103698631, 107949013, 31323789, 62230124, 12138251, 61410132 >>,
       << 98990638, 122731391, 123756124, 815480, 71657967, 56759152, 110375093, 111462255, 41333822, 81972935, 35220681, 23033865, 54388397, 78827718, 39183084, 21170843, 4054318, 27681981, 96363402, 93342529, 79370781, 71881946, 92202645, 128000850, 89237139, 31462984, 130523538, 118685594, 11690100, 90539495, 103492970, 31864002, 128532436, 43867043, 40599103, 92219373, 132817447, 85863598, 80732507, 92922822, 2587407, 15160526, 37886575, 48156318, 104030472, 75910969, 81939357, 131317923, 56176399, 60349814 >>,
       << 3594894, 133396839, 51053921, 80371508, 24109829, 8524087, 82802973, 45631152, 109994921, 72290772, 58946977, 25481359, 267329, 49373927, 34690389, 133712284, 81504812, 71202765, 21797774, 128659772, 134129036, 36447411, 31138547, 75351333, 122468681, 68803991, 99656548, 104122593, 37303947, 88407734, 105542069, 32931346, 108947625, 7288491, 93600052, 19689483, 105066979, 116979509, 93111915, 91039151, 110330467, 99372239, 10112592, 62533168, 97264793, 72313451, 14984878, 55604429, 63280434, 67377022 >>,
       << 115431593, 124476611, 748986, 51856982, 85096413, 50587354, 128023332, 86019216, 36383648, 89029797, 29768686, 90972887, 15287101, 46135978, 118518037, 86597256, 70827223, 77832640, 115923508, 101415618, 101820718, 121189532, 123633127, 6953155, 13818540, 50950884, 87307475, 114207754, 33903095, 118445043, 103669611, 77969595, 123615610, 97000908, 88338052, 19047759, 120964063, 114074518, 87784963, 68585556, 12502867, 44099593, 197662, 26805045, 126095191, 60232661, 103979906, 6225199, 15359560, 63881463 >>,
       << 7301338, 125750703, 80406762, 131174547, 20948155, 55333444, 84665987, 40043028, 5708452, 59896880, 118089522, 6432263, 27324996, 4172537, 68877515, 84436892, 72399892, 4220539, 69468597, 85982813, 120561637, 116255191, 128975156, 115293414, 8803339, 60969959, 21385451, 53970447, 20162541, 70959857, 22227046, 80616304, 126952412, 55649232, 73855692, 23334187, 87413588, 116785365, 103400561, 39726089, 111793110, 40150882, 113071363, 70676013, 43788396, 100967421, 127040622, 4052129, 88652603, 114173514 >>,
       << 2582423, 61423841, 19770964, 69302000, 68134603, 88552975, 77772948, 129646382, 45483577, 127696017, 75825889, 24676025, 86112206, 86818181, 62669837, 84737809, 36991759, 11920858, 10101490, 56230298, 72455682, 292894, 56771729, 125769959, 79502034, 91995913, 15077116, 96533731, 80509268, 118723405, 120037122, 51657510, 115236598, 14787933, 23017065, 107348557, 63384034, 54511793, 52601689, 17774682, 2087889, 74822264, 4441749, 71186905, 17913889, 112833075, 2247218, 32226715, 83872717, 16112420 >>,
       << 61242137, 7626061, 85309140, 101657845, 107973419, 23519007, 133448042, 123860182, 56543141, 26121230, 90263815, 120977812, 118428778, 35508991, 37662975, 36147988, 29305371, 43763511, 107786045, 79841041, 51202075, 84585900, 87370471, 24680012, 86157718, 33968059, 44829778, 133992218, 70051006, 91330708, 110235738, 117446544, 65035598, 120794648, 787815, 10901565, 23977018, 1469955, 98755350, 100177249, 39625783, 108784334, 88841927, 124882402, 88281668, 19140008, 40031322, 21784381, 88265529, 117696234 >>,
       << 50188705, 28850050, 54736922, 80083793, 2492068, 78593456, 12082920, 126001985, 124290120, 20966164, 128422799, 29907588, 61542767, 48886373, 33372435, 1201911, 24513473, 73996877, 122067357, 35736829, 76487490, 60579061, 54367447, 110450193, 109570305, 124399015, 94518266, 7891837, 33544444, 81878836, 50562841, 87110687, 102145739, 60244877, 103235, 17697837, 123250905, 101228938, 39412227, 32518680, 50389714, 42714131, 17845268, 113341724, 102657115, 119641316, 92570744, 41384518, 5640988, 47235322 >>,
       << 47628477, 29837391, 93737822, 102555535, 57031028, 34338557, 67274241, 101186642, 10624566, 93940641, 71509657, 109407920, 59004183, 106001517, 49286995, 104540102, 126383495, 37363712, 91223719, 2183498, 130311629, 32624513, 117266560, 53701561, 111007328, 94178752, 36504170, 112796598, 117733253, 120643139, 68453832, 73388153, 19712584, 15952641, 47281975, 117343647, 96213926, 76498139, 60635467, 133959705, 66895856, 33389301, 69494015, 49585220, 37103850, 126039863, 95603313, 53695915, 55178770, 20437354 >>,
       << 134091930, 26519478, 128947026, 17068887, 30980281, 57430092, 5159379, 51158360, 54120903, 108286484, 62222360, 81110324, 104080859, 83876605, 130212134, 70993070, 54727631, 38078080, 78558599, 9890525, 17360763, 50040826, 78044498, 41662785, 76094420, 109601740, 65042161, 129894657, 122322148, 114799034, 119113579, 89466466, 121477709, 23377989, 18104420, 100461260, 6777688, 127683453, 34436550, 24963860, 81179203, 70388454, 51935763, 24765706, 22251361, 129016255, 55127108, 75655250, 83199234, 17288702 >>,
       << 1487083, 51517012, 55962468, 53439478, 9753797, 129721217, 60895240, 127322657, 125012568, 76396187, 78303546, 54785183, 23745896, 25386450, 119794734, 46271914, 50594089, 81909431, 132240261, 79189605, 121961117, 119411839, 127236128, 80640416, 88221887, 110208988, 20712470, 78918373, 122784142, 98950268, 80960465, 106183070, 127687932, 98517961, 73573004, 33279063, 28901941, 43032386, 100864037, 74201737, 98623703, 64083494, 116119985, 130531775, 53662562, 74622089, 69090975, 62275859, 95310097, 66495786 >>,
       << 60524116, 81995629, 25137780, 49951669, 122992365, 104822563, 58227454, 1658569, 40414015, 16296454, 33159705, 34199609, 70490059, 23174916, 6557305, 70230407, 127174936, 116357852, 108378052, 33751555, 120153428, 81605547, 109132229, 33154375, 12837341, 43938941, 26862613, 80949736, 70850880, 100131212, 25447599, 131002978, 102600838, 80462263, 11359892, 20771252, 133015422, 16918779, 54016050, 1321176, 3936735, 593111, 120367105, 8925280, 38868496, 39928545, 6666640, 87559812, 131384221, 88345378 >>,
       << 93737010, 62600538, 124815272, 53538936, 19702370, 112753061, 82804244, 97224194, 100259697, 126687450, 9038057, 128390534, 106355395, 40930993, 99481003, 87518448, 88762878, 30444454, 114475249, 4530614, 116865415, 38150618, 98125129, 125598753, 75701885, 9491470, 29222844, 40334977, 15865713, 2239111, 27397226, 69335025, 108921363, 77163353, 66532552, 43137197, 20442130, 120948069, 85304463, 113228288, 72955931, 63092709, 17769791, 4452272, 79381293, 82261717, 72497194, 58355014, 86493578, 43919394 >>,
       << 111779644, 90108658, 51505306, 39879131, 21443818, 99627514, 105482290, 89540581, 126140726, 93589319, 18177418, 39842729, 121948981, 1524247, 44225616, 83360580, 130140326, 95216868, 87102543, 20311392, 7464009, 69603998, 24515063, 31344167, 45209042, 111622285, 31155626, 4158097, 76534666, 125156428, 65025705, 133321984, 57260792, 57459568, 81689097, 126488048, 107427817, 13731131, 83535134, 126604524, 35033347, 74987352, 121566911, 83274201, 53778194, 16790953, 122859377, 125854970, 76287347, 126186819 >>,
       << 131099178, 111036113, 104258710, 73175374, 123643650, 130564477, 131398746, 109582653, 4557393, 87112002, 132571865, 115065731, 49663454, 53995555, 71665302, 17677627, 118023923, 578994, 11432003, 63600153, 88433612, 48921737, 33018218, 84281692, 125526147, 372877, 60206033, 82636112, 54826758, 54900439, 13489423, 125687828, 70624331, 57795956, 76755219, 44722088, 131287855, 64463687, 20526614, 101696190, 102606940, 87461289, 122856455, 98319818, 86161779, 129330106, 103514620, 38974101, 114027906, 113632112 >>,
       << 902958, 41556505, 33273757, 106757141, 126080981, 41252304, 65867688, 34578176, 16175380, 95404813, 21926720, 42679582, 30271240, 129434899, 9736503, 88133864, 26061212, 64714670, 88647608, 83036858, 42379051, 114141470, 54318477, 13010145, 1708958, 6956478, 66598922, 65792454, 66554287, 26366977, 86216581, 22757725, 9834748, 66616157, 132953308, 130282680, 46924109, 8336246, 30300423, 56243095, 11564332, 101679234, 77255554, 102246414, 89018687, 24070424, 129654081, 6038255, 19678030, 93282635 >>,
       << 44765093, 111847120, 83485270, 99886288, 112182546, 78360154, 80211229, 96936539, 9527130, 79293994, 26612148, 69207547, 64998860, 25954518, 28181320, 61689400, 5410958, 25484900, 40033119, 98215487, 24675726, 108765359, 39449705, 114324529, 133721992, 41675798, 36918152, 113632574, 60203892, 38468298, 73813063, 81729700, 11465, 104653686, 36364093, 66220651, 57881652, 3445730, 59583471, 100635433, 128683796, 71745429, 55832266, 116232736, 17269901, 103947183, 30265112, 42307204, 132398417, 8816617 >>,
       << 123883631, 130014112, 118763226, 689646, 92855611, 112332277, 63140855, 55504245, 43131238, 10229583, 104339809, 101610281, 81644753, 9568709, 105552525, 63245675, 84540383, 4578975, 131192063, 123335105, 92350005, 74808012, 114532296, 104857434, 130860706, 47953300, 12056566, 64870281, 93291591, 32063578, 128985063, 88236069, 22341708, 115947740, 72237712, 79603125, 46588756, 10530320, 35968276, 47201053, 51476077, 25848410, 130406016, 34331985, 4971344, 81204214, 109245587, 9848166, 74939715, 106674352 >>,
       << 47515456, 68301185, 195370, 46212929, 46481844, 73096187, 99587892, 10610410, 97833953, 98865596, 108415779, 12809228, 43078648, 120151379, 112094326, 60651881, 34973386, 36406358, 96410369, 107477086, 83101517, 52667118, 89801979, 49089518, 33403619, 80836296, 89443426, 15699871, 123725324, 53468541, 6293604, 86786855, 66021288, 110227404, 63457455, 361427, 6788521, 38259629, 1517722, 78897503, 32994737, 119757206, 111249666, 107529793, 1691339, 96210554, 41806457, 42806491, 119828037, 41843482 >>,
       << 15734299, 72420697, 37083207, 132165813, 2466248, 133474299, 102158415, 33372509, 81095288, 123898988, 105825592, 95541986, 73273712, 20080491, 23919085, 10930007, 107947547, 72427597, 3239162, 91398598, 28052325, 78996038, 51354247, 52835646, 103206110, 21517603, 102969179, 126134014, 99108466, 98164826, 5356036, 32017290, 68953219, 49895000, 122854660, 110161579, 73012855, 74448282, 53598533, 91871055, 127308152, 37406640, 84334639, 130473302, 93062970, 99823514, 2824176, 88593293, 59702198, 71696184 >>,
       << 72542655, 1670685, 20340933, 52578740, 43177299, 21132291, 81615182, 93659079, 45358363, 12152478, 130302078, 120969834, 51289497, 37914435, 92885269, 58697353, 95199826, 80572667, 27735636, 116360279, 27343329, 96955519, 31773361, 45975718, 96748562, 56039079, 17737027, 26855295, 7448247, 125163479, 25484385, 81188491, 132265347, 62870637, 40262775, 35386115, 114085633, 2773612, 67529978, 121854001, 68079093, 120796319, 7170147, 102285600, 103162686, 112800820, 57982400, 65415306, 5713849, 67859023 >>,
       << 96614517, 129514006, 81217712, 74945723, 64822857, 133197700, 130032986, 5712322, 80071728, 22573757, 5506452, 131405590, 91200795, 96051403, 15768498, 80461541, 93857318, 82561841, 12436134, 72591844, 112621515, 97024088, 110370557, 92980089, 84449992, 118880119, 131410100, 37869196, 116185941, 29844366, 10584513, 12331322, 26802227, 91368645, 114911696, 122201019, 19496391, 108817945, 52317751, 50811116, 13456666, 12918256, 45001293, 72090202, 37000747, 74295529, 45433151, 75279665, 6314366, 46024631 >>,
       << 21878747, 107420151, 53598601, 32342288, 25027676, 88334001, 16012829, 14957006, 79725276, 88073374, 54127041, 4341749, 39630282, 133438593, 61045153, 107202435, 91770589, 90225955, 132578730, 21331521, 19695117, 2427926, 42082552, 30318481, 80613810, 121464873, 63133836, 91015800, 940923, 63894187, 64076489, 127771648, 36592694, 48769147, 95451371, 37381773, 39764133, 64457754, 97497032, 93714027, 128658426, 106026547, 7610836, 115902807, 71380018, 91119891, 119683624, 91121970, 103693339, 18466565 >>,
       << 123283529, 85976176, 120178554, 26398791, 10727789, 59564893, 100759265, 8525970, 38825894, 52398803, 100112714, 9855438, 110444314, 82891069, 76812126, 45494237, 97870851, 32733135, 77387135, 36547395, 56535801, 117628312, 106390657, 65218753, 107898503, 52007481, 133922740, 54784195, 17753048, 117142496, 54686366, 24132613, 33312461, 43851194, 94371572, 101863756, 77338673, 50456057, 123862708, 372592, 48761580, 31150478, 131026438, 1826627, 18504315, 100534487, 51588906, 9888147, 99302748, 71755558 >>,
       << 40427301, 2207060, 17413391, 50193443, 65251533, 109112908, 74561170, 121764465, 60186498, 796939, 29002011, 121715282, 52111591, 69382055, 53859530, 6498646, 44378299, 124571010, 109065444, 6957012, 52797325, 31743034, 5574056, 53180637, 53124684, 32038577, 58246831, 111298043, 1122554, 49790022, 5907834, 17349748, 98104305, 71256437, 119064469, 86043099, 11774924, 86836098, 84998393, 57570655, 35699484, 112396567, 1075659, 83730965, 73151166, 78888932, 16197802, 1469548, 115371023, 29038757 >>,
       << 78737711, 5878969, 79505910, 15873343, 132665717, 22133685, 7878883, 108111586, 99425799, 31844175, 85777817, 3867147, 19214931, 48967520, 18153701, 3128008, 81645992, 35204279, 45495302, 21217083, 92416900, 26847704, 102997688, 126534802, 61749286, 101599616, 49798459, 76292537, 62745566, 93430813, 80189161, 49213358, 31039891, 115087422, 15047673, 77105145, 87143176, 110646387, 25054816, 130080575, 52670144, 5591514, 6649010, 83655357, 96181474, 71597931, 57765028, 5771083, 17857392, 115835297 >>,
       << 129789627, 62205693, 46817408, 123108722, 109350881, 127174298, 66168894, 125419052, 39631241, 88796599, 43175256, 34599931, 108893561, 36688997, 131732343, 84579246, 79260379, 127751021, 18396177, 5884742, 42818511, 38363450, 100283005, 74737376, 129203931, 81198356, 37784422, 93078087, 38294101, 124249225, 44208322, 30216310, 68960359, 12155152, 16690742, 74818054, 2186404, 84640612, 75304172, 16210228, 96417487, 73554537, 79892158, 52249572, 46689082, 84456570, 47028681, 71053861, 28368443, 38036435 >>,
       << 118959188, 112604331, 113449983, 37982292, 102285862, 44314842, 53437031, 131580471, 54511783, 21058796, 116360841, 22531664, 80143816, 106595983, 92050376, 49794063, 20053210, 16555484, 66212752, 82749391, 66443354, 7024006, 42264803, 93873402, 54680466, 50987459, 1620224, 31505429, 130125089, 108933476, 54813017, 13763883, 108831796, 56371321, 112790734, 18728710, 41553395, 72713899, 56781775, 4091407, 60081888, 1407273, 39773100, 60251644, 115922877, 85945916, 20704878, 101706091, 56586109, 121037227 >>,
       << 123682384, 54506494, 2152239, 17593505, 26406040, 47421735, 107344250, 133453386, 8440661, 49119994, 67641423, 49011741, 3647117, 9530298, 50259012, 128163546, 26715740, 91388214, 586267, 9106880, 59219422, 30923692, 91186281, 97420018, 85202538, 127658198, 12101893, 56795633, 66712978, 108577217, 12601623, 42417283, 56807216, 7243541, 46554895, 70673593, 59060861, 76783494, 8299806, 50119541, 17307181, 24057553, 34314112, 40563566, 10073485, 28076848, 32922931, 79286521, 43808298, 41284130 >>,
       << 59369552, 76123950, 35614444, 7598656, 95248307, 50382136, 130007206, 35462260, 98237031, 100037506, 49038710, 28694966, 13029027, 91269317, 108937884, 42932757, 93200334, 126026296, 132541881, 123198573, 62751921, 78319351, 7303355, 42858123, 96996726, 61771697, 16523308, 76862400, 125302426, 98695626, 10730964, 101800290, 86300090, 125145399, 70425765, 85526893, 77252876, 71339017, 53399815, 58348100, 129442774, 99803541, 125725693, 40311520, 113764610, 96436088, 54306604, 77945127, 28831052, 57671370 >>,
       << 44304966, 52122549, 118806138, 16516208, 74320245, 31548073, 26146725, 118260152, 43254231, 95762076, 81506831, 66423837, 35412428, 84181529, 90000052, 75103699, 61740969, 53148619, 73408858, 128157204, 928192, 50231698, 92162586, 62908845, 6600294, 103615648, 24928985, 130267588, 32599792, 133388303, 100138777, 93155823, 64192137, 113758244, 63625618, 107547170, 98118067, 11905405, 72754180, 35615910, 32797531, 114828458, 802510, 108140659, 86219997, 13456882, 75653426, 24911963, 22003977, 3427039 >>,
       << 80996371, 48302370, 58047375, 65614874, 32466665, 29127109, 25454891, 114126523, 109706848, 19281243, 92637509, 94820555, 81027831, 93764901, 64298074, 28548302, 105513116, 91618679, 17886045, 28230458, 75903132, 133988415, 115509250, 54341068, 38801784, 34772628, 5357720, 24970308, 116578455, 75251989, 123689606, 17900806, 43239585, 32222061, 102419745, 21993670, 109451490, 52986889, 125462882, 107896868, 120228149, 129406117, 61765566, 50474195, 82854148, 115355604, 79690342, 87609388, 25076121, 34666735 >>,
       << 22191277, 58961318, 63538371, 123271760, 31776998, 83476643, 125232125, 95174947, 21401507, 30042541, 96761593, 71795409, 116429341, 45385422, 87470440, 18883274, 6272544, 18342286, 31983879, 92074773, 24476064, 2911328, 77206285, 12605827, 33737261, 92441096, 133086985, 17850, 8758869, 56811657, 82791848, 25353577, 30595359, 102159203, 107156246, 23513225, 69292008, 37433364, 39370768, 18562326, 28510236, 129054017, 39852254, 66389996, 88562616, 9476055, 81154743, 79321286, 70500712, 20045524 >>,
       << 119381030, 81618861, 1220413, 107333302, 90283950, 64863590, 44479677, 110042201, 43094912, 115698056, 11288208, 44057731, 113110799, 36068196, 92616078, 45915416, 17023871, 120352923, 52211236, 7728115, 122787577, 124283051, 59400145, 43433857, 58574966, 76288552, 92573481, 81785816, 83528488, 9320085, 27077018, 73969286, 128768260, 29680536, 16685559, 3953310, 507366, 96183242, 111714552, 52794229, 105844425, 38164274, 132161690, 32998085, 28647980, 90386866, 20766900, 24737005, 103811616, 101786438 >>,
       << 58048625, 133264139, 83942023, 97268438, 104566699, 20206188, 122622787, 17217582, 66137548, 60317489, 62738656, 62661174, 29305626, 27347134, 126061779, 10124343, 55588616, 119011235, 97438925, 67945312, 93931394, 128861163, 4532520, 128170095, 53475800, 53929902, 124631869, 40095902, 97994142, 64175195, 3795294, 124220265, 107730531, 59451721, 462918, 27828082, 74962170, 48520544, 7027633, 31949215, 50794986, 107048094, 4637652, 44970734, 82458362, 42035910, 22745303, 83739102, 67568339, 106857294 >>,
       << 40833796, 18155906, 84580589, 38609601, 11383588, 97700590, 110607700, 5045722, 85941380, 63473812, 106177685, 95034129, 39931273, 97700383, 7200210, 17753840, 120501596, 66579910, 36272158, 2483380, 90650318, 86973592, 116573754, 58294629, 63517577, 104891318, 101819013, 49234268, 67959744, 22414961, 57448896, 60860103, 56404731, 18484479, 49828367, 76393328, 124286116, 324854, 112992181, 124278439, 57673347, 111455268, 21461553, 1851318, 113114625, 5370027, 32898142, 94836702, 54336432, 25623542 >>,
       << 108025172, 68230475, 88900418, 131816827, 47892935, 85133330, 113675639, 106550124, 108658996, 126679623, 54162221, 118519377, 128204710, 106765307, 35214993, 126951752, 55247109, 97835128, 9525938, 37946640, 76997569, 60104934, 35871807, 42286809, 79861240, 65189712, 86662893, 78678155, 28033490, 14024033, 70158105, 124193207, 29204346, 131659562, 78795817, 93815885, 103357670, 76602473, 91186334, 65015772, 100470238, 77083309, 112560738, 72703520, 95035206, 37285195, 113026566, 133849412, 80283262, 105977441 >>,
       << 10386681, 34586225, 80361803, 122660885, 94766534, 67925726, 57344434, 4614633, 79091461, 99333577, 83244633, 119285209, 42277787, 109235460, 42088357, 1906702, 116336626, 37862236, 80156892, 94247722, 107432660, 88830506, 27855164, 19182726, 110534480, 55961535, 104029147, 117090646, 58588535, 39808824, 29055218, 17120677, 17688295, 100032682, 29854281, 130910558, 79252562, 34528840, 119881703, 51137762, 13613606, 17550618, 13535093, 21065267, 96448998, 73558381, 78614521, 94474349, 125434568, 118181406 >>,
       << 71627632, 108123329, 87364536, 10016646, 88655223, 116369983, 122168936, 14002854, 44230687, 82667094, 38697204, 75482020, 125196367, 45558092, 30598747, 33752783, 2185553, 548114, 93926002, 9829329, 24488359, 91946659, 60455694, 58644742, 99497280, 93819774, 132568224, 123373776, 117531468, 21924339, 18451000, 122087005, 25918591, 109604938, 79400305, 130482322, 71276933, 94381773, 122865621, 40827124, 126036731, 66801198, 40288298, 23169334, 110959257, 119387166, 124707590, 85493329, 21691652, 45769312 >>,
       << 53377272, 95983450, 61887143, 100196653, 67647844, 93426717, 65994209, 8618654, 113715264, 68906283, 103931664, 67268176, 70646239, 18970845, 122003032, 129545742, 17282930, 27518599, 60431696, 70579679, 86296633, 73287740, 87098117, 64837748, 7758935, 44268735, 88216545, 73370864, 130530917, 113792483, 38939663, 9045273, 52067464, 70082665, 6640542, 51595935, 93620685, 10339458, 132533245, 98151718, 26833950, 93671608, 97084601, 34281600, 77246939, 86226007, 49671012, 53796351, 41063557, 62751972 >>,
       << 100340287, 131471880, 77169073, 80457943, 72005146, 130522247, 116748004, 129994954, 36375503, 52534832, 3288524, 101071095, 91193986, 43562684, 69164260, 57496370, 92167116, 59568885, 83689067, 36150139, 76150979, 104024693, 106941969, 51918178, 25876875, 118593986, 91035959, 72689185, 32405779, 130334167, 497585, 114932793, 83335181, 115169555, 123255999, 59696559, 20691715, 27022137, 53012172, 107909034, 16016228, 6804206, 112663796, 72880662, 7966355, 77031592, 118119244, 18885625, 55993064, 11230536 >>,
       << 51565254, 53791255, 17771564, 994421, 13281710, 56196246, 43305554, 47825619, 120912505, 42769270, 98308432, 60346785, 91856441, 67990328, 54539646, 127652232, 37283410, 44364861, 67009843, 89323198, 124391520, 70160775, 127107132, 53498812, 43281687, 43993654, 100879101, 101824148, 48113555, 119248087, 66240805, 47253373, 13405143, 133036349, 129662741, 23105299, 34194073, 63117267, 57841585, 36855808, 767842, 919202, 7020005, 51863719, 70299876, 59916247, 45309017, 69930055, 105615459, 108621733 >>,
       << 55690277, 108495789, 71263504, 114868377, 17823096, 39080194, 91710081, 7716155, 47971203, 9568531, 55663203, 51353651, 47365466, 34273033, 43633661, 14295715, 20656947, 23504891, 119691895, 34452054, 115638619, 40605773, 34898234, 9222246, 103326206, 68758689, 79017790, 82090561, 63392298, 125218881, 39742688, 662804, 19289811, 107599062, 113820671, 111828598, 27073928, 27057075, 71039251, 54564323, 122426612, 71727381, 133964264, 57149990, 2280166, 68794462, 104090076, 31323894, 112272780, 42718471 >>,
       << 110136683, 63075887, 116402066, 5623260, 98004411, 8525908, 60751681, 2668228, 128625074, 32903530, 54788919, 26036342, 6117894, 118366196, 83511739, 40037019, 108701636, 125709638, 35940979, 20653814, 122984639, 28475735, 68812696, 86300355, 55191972, 8155490, 23267780, 6069615, 107013621, 93105027, 44665585, 98156379, 6511082, 72552378, 82069244, 98768742, 71762744, 29976031, 4079788, 131952034, 81700119, 104268260, 117125142, 37309443, 100221395, 9282918, 28533503, 36119979, 89653875, 77629709 >>,
       << 1626180, 78367287, 103368856, 58150952, 85626890, 8887031, 110551451, 81524118, 63838030, 80044318, 65067537, 116501869, 113364820, 123385839, 110228873, 120168334, 77290137, 117794829, 65361170, 18109926, 112836795, 36606003, 45182432, 132879931, 20516061, 74522873, 36067815, 14698972, 28151486, 48664468, 52242988, 81791329, 36279293, 70682648, 1769327, 40107493, 42650793, 122725062, 5669002, 62282219, 27466847, 47504684, 101134535, 103357583, 50686092, 100903823, 92784930, 66054312, 40151920, 132587938 >>,
       << 68375801, 130685477, 132025917, 1900620, 76911711, 43200401, 66876044, 85928848, 85786372, 127955238, 29899953, 76911749, 33717476, 90842663, 2528463, 119221735, 45202165, 78447306, 111184224, 84280319, 102175709, 73619337, 6060922, 18838239, 88296620, 131881136, 58008418, 146265, 22627200, 96264586, 82811164, 33685248, 36274334, 19748645, 87331933, 117026174, 108547539, 114972710, 5945184, 107566218, 31308738, 130116961, 12082719, 47482773, 122319000, 71195280, 80592995, 130856541, 102368707, 18778677 >>,
       << 44576867, 69871671, 37630177, 81943167, 112948470, 116904226, 2357163, 62900310, 25663744, 113331305, 41899943, 20611126, 5485347, 30515430, 12934433, 75634558, 99871650, 59058283, 89253164, 61718187, 63238694, 38346374, 71483072, 58624474, 61777181, 48663883, 81827511, 49029688, 128267521, 127321500, 15257708, 88087903, 41441410, 8951475, 68918830, 120709257, 57090949, 99027729, 35877042, 133335892, 122011083, 92172123, 70153033, 96856146, 21336177, 27040388, 495739, 67224325, 70059269, 101282658 >>,
       << 97161392, 17332399, 112621969, 81386119, 42949673, 105590141, 86085615, 69793180, 117278369, 53208173, 93460014, 69028573, 108176925, 125837140, 37104988, 14229923, 76578131, 56409648, 21363906, 32842080, 86798985, 102871591, 29498788, 22590892, 130335351, 119655135, 57628113, 4177925, 98895469, 86278515, 48398175, 96981914, 73636703, 50565706, 96157809, 83578798, 101568461, 37574371, 22246098, 61639037, 56370103, 112560844, 64500417, 39263456, 124566371, 69303825, 28157130, 13241515, 113991992, 131827332 >>,
       << 59519196, 25832859, 93924741, 333912, 51532773, 54070299, 24399883, 113202504, 79236172, 28673796, 88208325, 129735718, 86200200, 122776766, 91453565, 11603359, 49865975, 12384634, 131765034, 108979914, 71085877, 123926306, 119926563, 107136485, 102590158, 12123631, 62913088, 72596002, 67196472, 20076471, 39580948, 104547477, 19687245, 118964418, 51202023, 110505307, 48561828, 110287016, 45618691, 75581549, 41930862, 55609016, 83598524, 73653235, 79687722, 112202740, 3141174, 125300864, 56426269, 124534060 >>,
       << 20503442, 31617209, 17920423, 61762730, 97298822, 19382612, 29536435, 87746635, 63586613, 15978233, 60439581, 83842298, 67456072, 126948471, 77748507, 3620505, 131626792, 20334572, 118635515, 22986505, 30601506, 63287194, 91175398, 111068461, 76934791, 7598605, 4819968, 95083788, 109058801, 106914625, 102396081, 131331216, 57500657, 42460906, 110584947, 36605565, 117161486, 107300792, 95894185, 72766521, 84246774, 85599000, 60132360, 7466373, 90073358, 119262113, 74113583, 37657195, 108705596, 62547534 >>,
       << 132128056, 59945416, 77970429, 43347060, 94390891, 34828170, 9475948, 84170608, 106174501, 59749709, 56467984, 66625623, 42139024, 42127527, 27182451, 79637876, 70441667, 10387636, 132718907, 109862999, 117913989, 116084217, 73101157, 72583190, 83794171, 92005005, 5340730, 113144594, 60724532, 100521960, 28203297, 62111791, 69013190, 8899831, 47344278, 78273836, 8697572, 43004111, 66318657, 80869961, 7795115, 74870185, 77984645, 40600855, 49606051, 68441345, 132548893, 81674775, 102288081, 95590876 >>,
       << 84179683, 52426325, 22501369, 54356439, 110967758, 73810099, 28198860, 67850813, 35376376, 73886058, 68682759, 59497896, 55166830, 27563358, 70480900, 3067430, 115594287, 20878184, 128779873, 2267498, 91972408, 64288500, 53498338, 10639917, 20258512, 31916348, 79682088, 53572753, 91437003, 14599424, 24213778, 15370116, 125581378, 84771464, 105542280, 89644032, 80883259, 3738944, 84830279, 114048105, 44793775, 99083251, 11840119, 73441529, 117909465, 108351304, 73393315, 13390672, 20761643, 124607513 >>,
       << 76111173, 86844331, 105912769, 72480309, 70195166, 86379228, 51937771, 113727315, 88001633, 105245218, 102330004, 13192455, 68550839, 102947156, 17960358, 109451784, 108504492, 3563869, 87087978, 111067838, 65559230, 945273, 122864032, 53927336, 52079695, 96001729, 102062531, 114059530, 129617286, 79992496, 4918801, 117182322, 15894291, 6318342, 61026330, 78669894, 17710723, 29453552, 64565120, 104600676, 19694380, 79118626, 74468954, 19324470, 52025775, 74259884, 81429275, 119918919, 30999969, 30051846 >>,
       << 36896581, 121505842, 94816785, 68636380, 88953284, 124781810, 114022973, 58607363, 88765289, 40773757, 81533503, 121080516, 60951144, 123657508, 6203566, 32562617, 95811072, 42437340, 5937620, 56468502, 65878060, 44010480, 61772590, 68589619, 82434304, 55534692, 115729531, 69600535, 105084507, 97926021, 116102529, 30237434, 133753833, 130783684, 25636783, 45408437, 47555117, 92679623, 59873328, 1781029, 107423306, 65342342, 59359023, 31692245, 99285561, 13631328, 102803016, 22925528, 112724683, 108097905 >>,
       << 88342130, 120634616, 118091797, 29262205, 13441911, 43339522, 44193817, 45669408, 84842464, 5732182, 91448652, 113300926, 103029789, 42720394, 59052886, 90747175, 121476210, 4393557, 47979670, 17042748, 86396952, 12564678, 70437142, 64215283, 82928746, 81000949, 90664324, 117732314, 99207127, 29882729, 69333964, 36755317, 95416502, 110349521, 37601994, 35353959, 6001207, 41765823, 49344407, 131782426, 68330356, 72127924, 28083258, 14048653, 130440651, 10247511, 41790477, 8575358, 41415399, 119153656 >>,
       << 64880483, 127637547, 6899631, 87429522, 123446248, 94161883, 13744261, 101004577, 20452685, 125655845, 30443496, 131234992, 86996788, 106472078, 43312608, 114196707, 6606138, 26635790, 53767131, 71907704, 132939998, 59588589, 15278116, 43526721, 84259904, 100670274, 52820575, 109942504, 125412216, 104212598, 71647438, 80764241, 10019055, 99811628, 5029740, 78219316, 85747695, 58775363, 117888992, 117133355, 60442839, 82934499, 59915959, 72172475, 7172167, 117267416, 118444480, 19075511, 31154721, 85739567 >>,
       << 130664009, 40607997, 107950856, 104418402, 84230088, 35837422, 47937270, 57223954, 68770227, 39181178, 35353565, 55299543, 131040352, 63488839, 77108752, 108743908, 39385448, 3320509, 122806460, 102177616, 132832032, 31125430, 109978378, 103636376, 56808785, 97392306, 114920544, 57347605, 128014029, 40018778, 109307391, 2905672, 8911205, 57982918, 29249959, 125846800, 18080813, 82296403, 42855452, 64393080, 29343993, 101788377, 66922183, 67918454, 88839408, 27959246, 116582061, 15975293, 47656317, 78153931 >>,
       << 126822772, 66869884, 49130598, 60801438, 94813882, 123077186, 21497245, 80721220, 122139748, 94395436, 89839973, 19770558, 88925470, 58946043, 31342715, 14020462, 68322723, 52815052, 129081472, 75102909, 103887634, 99729031, 27967928, 95384562, 5066164, 18348255, 75824274, 111382778, 11908902, 44483342, 75055974, 49430880, 123717426, 94653129, 88837210, 40842424, 86239314, 21968410, 133671430, 110279394, 30436373, 30418991, 23494859, 40276848, 12142709, 50454492, 114693938, 133233271, 98836325, 50042850 >>,
       << 9257341, 73818436, 46568112, 84131537, 99168936, 34130157, 72147956, 33210689, 78259397, 58097544, 106984544, 52218908, 3216660, 127068516, 62621128, 122189406, 27823865, 40250703, 39142849, 106664057, 51579960, 113623230, 63208859, 95162917, 34172923, 52180659, 23714390, 97597150, 16419085, 46355704, 99725176, 84851039, 76813060, 47880373, 73117704, 38042061, 87282022, 11050290, 123692120, 84169488, 65371572, 35934752, 99418248, 125076327, 123929749, 124700054, 81840515, 15422230, 57001569, 8541887 >>,
       << 59317988, 394249, 45187097, 1762000, 127279287, 21684479, 120468443, 22224418, 10324372, 68936947, 89174845, 12622282, 54289660, 75771821, 74062872, 9637542, 86641627, 111954923, 126539390, 38477438, 119620252, 134007488, 13271700, 30591787, 105728087, 102436070, 40245439, 112444543, 36702832, 89609973, 64359107, 51889106, 93824966, 119367771, 7861618, 94654824, 79295660, 34245054, 109695938, 75491123, 27299303, 93146411, 65344357, 108831963, 60364220, 38628069, 3466904, 98776732, 133710897, 17241808 >>,
       << 79388622, 108765335, 96497923, 115350551, 16827538, 71942653, 54367319, 38737319, 89179347, 85486212, 133804432, 32395331, 130337954, 27015665, 103434963, 125391274, 3848263, 108972414, 20342394, 57009298, 129082986, 114452995, 85149726, 46691780, 130089783, 125201457, 100542673, 3968838, 77193711, 97443279, 86679103, 78536501, 51602800, 94902694, 109947143, 25120806, 15646439, 74870708, 119546616, 25314485, 55783051, 50615059, 60722769, 61697164, 16524119, 80501536, 100160635, 50674429, 132868528, 55765838 >>,
       << 55547743, 58452811, 127848627, 10463550, 200744, 18730063, 133866331, 42070223, 100207692, 52902765, 122845541, 32280747, 37297072, 23339936, 108891879, 127524274, 123711079, 4304580, 18042523, 106492884, 113954827, 112512968, 17180666, 17936791, 91274681, 93811262, 131378800, 29552089, 36059588, 82371910, 78971442, 73043684, 5317415, 9713407, 120748223, 132683305, 28018859, 97334431, 58749531, 130452823, 56824661, 74319944, 29622819, 119601858, 56502445, 65528067, 48061143, 82838775, 99370698, 2166999 >>,
       << 12587924, 63666579, 115996905, 60711979, 82445680, 9686066, 43942593, 20095069, 85317472, 40859780, 37054585, 109287116, 54170999, 16146074, 36822340, 39428563, 3610695, 82782998, 22039166, 28358696, 32925384, 104268929, 115205361, 47038194, 8411037, 61461144, 40808289, 114281856, 53076788, 121865087, 48385021, 58288208, 118337367, 41227645, 18805580, 116575305, 108582668, 50585874, 109193654, 7052675, 14769811, 73764113, 51503382, 33062241, 65715181, 100879105, 17212173, 50950398, 29284333, 8923381 >>,
       << 76183546, 78457847, 104997829, 100722093, 47876025, 98658633, 121412806, 86281310, 51189592, 119940706, 82186957, 85054536, 44943489, 47783527, 78201668, 101728127, 21199787, 85813283, 24522612, 65225467, 91980630, 58877510, 50416083, 114193497, 118218793, 35260096, 108970408, 12439507, 40081515, 81585045, 6037274, 3533390, 29035574, 124459298, 115201088, 130022916, 106409533, 123379133, 109300652, 73494016, 43402842, 332878, 130567373, 24011635, 99717208, 107586463, 44898857, 46073599, 8528983, 97792024 >>,
       << 96906056, 131368250, 27955709, 111634720, 125733979, 104930796, 129995756, 36384571, 104621048, 38728311, 124199662, 91717148, 34335308, 117441160, 73729354, 53597191, 64573644, 18881997, 24235418, 71597787, 122219329, 71933142, 30694764, 76861515, 106518, 40357936, 62924221, 101338182, 32373360, 128406378, 31329793, 8872420, 33915603, 124171724, 48479068, 37043197, 50730347, 98142025, 99178460, 93382857, 11232956, 50169427, 92158957, 64720021, 39246701, 77881130, 111328051, 26571493, 19973866, 47996006 >>,
       << 12454733, 15362119, 34992489, 93507113, 104913659, 78968371, 61470167, 70596261, 69398433, 62620182, 79140869, 110581918, 42522212, 28676458, 8526538, 17986931, 117420187, 92369133, 1084107, 38857808, 1874217, 78270797, 43249067, 38307739, 32730364, 59164819, 66511207, 87326280, 58444670, 57032586, 12718281, 68965468, 26081078, 6948119, 93732972, 70912122, 107963554, 50194200, 67383803, 6925406, 8022803, 13409058, 97051048, 93510867, 71929099, 64481318, 129524027, 32642928, 11512405, 41878595 >>,
       << 27666357, 78154594, 11315592, 43563380, 12361346, 125939008, 8713806, 33577334, 30714379, 58134282, 64609875, 71787784, 55371899, 22928447, 84732636, 13943168, 126874483, 107399381, 1984025, 65214412, 107163703, 73618872, 10417475, 73657703, 61217726, 13061775, 6085071, 82562620, 90112171, 54410410, 84672838, 70397937, 42960880, 56806940, 40425346, 17297164, 44381572, 102137824, 60953842, 112601900, 7097304, 54565700, 86210035, 73540030, 87469400, 112454669, 308646, 19164667, 115927186, 57420189 >>,
       << 110322696, 77602817, 88120072, 26564721, 32801620, 124083983, 108533229, 96836214, 9677366, 49967612, 126441918, 35336568, 24052602, 94855527, 99729943, 26330288, 1642473, 54256762, 4461447, 7085868, 24788160, 26204357, 7278605, 24832894, 128706430, 67404479, 57946787, 117343704, 44995235, 131104789, 86843154, 92795783, 126484224, 44981354, 122131906, 93331598, 2532270, 90634563, 43814159, 122877999, 111527201, 18536193, 22575378, 38695860, 99441974, 12828052, 12863109, 38825980, 105798646, 20589340 >>,
       << 3665284, 54185820, 54875946, 64478145, 4921520, 13837417, 42283563, 10118388, 34372429, 42917259, 99124535, 79030540, 76019552, 19014290, 2562661, 12810877, 131949975, 115416009, 53928057, 56964001, 119834480, 33534134, 27622902, 113924617, 99346427, 69700177, 18877659, 17277176, 18211123, 114471691, 18338178, 37295798, 5014140, 4228818, 133038464, 42884727, 31152898, 116643386, 131173004, 78800061, 17514300, 24721459, 89233211, 23635845, 6333941, 49987814, 50704870, 18768758, 87914631, 3695188 >>,
       << 12831991, 128967169, 89020563, 99208402, 82402869, 101671048, 6221941, 114130217, 10136881, 15283612, 101759140, 27881659, 34363225, 71697108, 41170924, 28061693, 30014729, 77292779, 13559849, 25829274, 30578143, 86133200, 23395400, 48803874, 24365277, 69393672, 50846028, 128225826, 130574724, 15669076, 106918791, 28813492, 21249869, 32649398, 98373193, 80222589, 34113177, 45034753, 111723350, 115416293, 55260181, 91170735, 38024987, 44728939, 16943702, 29068652, 40839673, 24920268, 67189032, 53650558 >>,
       << 40050708, 103685218, 107932158, 39990044, 81793881, 59420662, 57471600, 106441541, 667938, 23254918, 35394406, 78336154, 68719319, 57720123, 57632927, 25947867, 35919709, 23336119, 100048996, 7316042, 97936327, 108748547, 78295005, 127608252, 47863282, 33221198, 58688769, 100710835, 60910295, 85450709, 89928690, 63559266, 83899820, 121455062, 116362690, 110185342, 32548197, 37141791, 88834823, 76886412, 73839408, 85493503, 83897696, 48388604, 23803103, 83460671, 63337038, 111451380, 31145672, 47809882 >>,
       << 54326753, 112050219, 103937810, 12363487, 44910371, 92389828, 23832188, 133852496, 51492407, 131779858, 128824327, 54262105, 49784886, 109263179, 44629491, 75527073, 113690825, 8903426, 35904728, 65488223, 102546451, 120423562, 52356553, 128908233, 21166948, 49624581, 105701052, 33056251, 117083149, 85843097, 68571436, 8130731, 83159763, 122959864, 55909157, 55900222, 40284955, 14123246, 35782585, 63449085, 105059768, 133227089, 49589949, 29417237, 33448882, 54266882, 113950316, 78061689, 93679839, 49777340 >>,
       << 21374704, 38727665, 117864229, 59261347, 104348202, 133201615, 127368896, 36345478, 123990866, 102634144, 52855838, 58291059, 96593704, 42651808, 89512937, 31316383, 45374164, 27968065, 75322051, 77921473, 93783578, 92529670, 93913448, 124276670, 54723538, 17083475, 102259053, 85065902, 118205031, 102793651, 77388161, 74013597, 119215736, 45511068, 100386494, 33533178, 20682411, 38874301, 27185528, 117766624, 122243248, 94901877, 101331460, 132860279, 52111008, 66283981, 123987511, 79509269, 20231248, 39971412 >>,
       << 13859021, 45466894, 63729405, 10978502, 21025774, 86027340, 61426967, 115885101, 86551818, 93662786, 125360934, 56149681, 127627922, 26375893, 99985048, 83925863, 73424114, 124986264, 30146046, 43484070, 36433865, 28521600, 126189650, 88496272, 38469377, 55139902, 73622284, 44093693, 67137222, 100540205, 57601672, 33064672, 89758895, 77544447, 3507673, 55426389, 105333033, 13591973, 52787346, 98076794, 72262812, 19745439, 39733158, 75901032, 63134531, 79220363, 85753784, 31724268, 82666190, 81660550 >>,
       << 100938543, 119375778, 101860114, 73333747, 105673345, 88217691, 10356771, 55738013, 12909263, 47578121, 115486856, 30145757, 90437356, 127015677, 67121355, 11180661, 13623919, 52834999, 120384874, 104906124, 69158241, 88017125, 26405217, 93232761, 61995791, 11862766, 3922772, 32862288, 3103305, 66720006, 108233586, 27946715, 63617029, 17555507, 50940941, 7909548, 63287732, 92762346, 22286339, 104020824, 111413820, 103786098, 545853, 126565284, 12806896, 36758166, 71981701, 82348560, 56856278, 109322787 >>,
       << 64689395, 128704849, 74341916, 121310808, 95506450, 2563422, 74615922, 120290952, 18782155, 51888236, 98236034, 36923094, 77019613, 27918150, 15814154, 17691897, 131427633, 16439804, 131405294, 38315802, 53449779, 105193727, 26368322, 79477464, 103107902, 39976778, 105092108, 103785318, 59327130, 53265725, 24688483, 43394568, 86227411, 37308656, 112518563, 19347463, 100484149, 77598331, 133076211, 111581591, 84937629, 22071807, 52157064, 113071453, 94292151, 39800622, 46234339, 100750889, 54419851, 27530044 >>,
       << 123099277, 109514244, 25669800, 80241789, 14614265, 61741428, 18615277, 100401733, 124922845, 78528019, 115504364, 108250054, 79004738, 84638929, 120699088, 40342521, 1523124, 28887890, 53071247, 110147041, 76860780, 35200542, 67864121, 113612697, 89247243, 10727197, 133342071, 89626514, 14742112, 24363479, 86171959, 55513988, 94290084, 122278148, 51441320, 96449568, 39209244, 76122518, 61762245, 11869032, 83271615, 55029002, 60599012, 132818438, 90225845, 3432593, 55256621, 91526831, 119320471, 73914229 >>,
       << 30091130, 29319972, 44108853, 29618314, 80541689, 14889786, 4410593, 14076655, 128303096, 52295174, 14419839, 22791279, 46963366, 105396784, 103798268, 76667744, 3696342, 15245600, 53868567, 104162440, 96424070, 33138157, 76193589, 80749674, 36521805, 98164377, 78530951, 4548283, 102195875, 101247224, 10912414, 26130503, 30389767, 31088021, 36530759, 130468062, 36493377, 28916427, 63919587, 123163807, 89373377, 56272400, 111834339, 64697129, 88153057, 107388626, 27530538, 128446024, 92026538, 36726260 >>,
       << 71602352, 106644831, 13474234, 37775156, 6119049, 110800034, 75611792, 73215138, 106990646, 92792142, 35608258, 11893154, 97760220, 8331745, 128179730, 9550768, 116095009, 58272017, 66253065, 80597132, 29059497, 5059637, 9920492, 133409135, 33694743, 121964953, 73068652, 12232724, 13922336, 53748388, 1398806, 130905178, 37973654, 77623736, 87839168, 95345217, 79230720, 88975182, 88274251, 11145168, 103570326, 3344072, 6383481, 113873109, 41815603, 88067926, 120656165, 123842815, 21682819, 119941262 >>,
       << 122386635, 5187852, 20202738, 71086653, 75406370, 111507242, 118339799, 55999543, 114516685, 55967954, 124262747, 15981296, 54250582, 122940570, 73053533, 134117306, 4426551, 100393481, 129495462, 9711151, 117597683, 83328329, 80828833, 5309049, 33077664, 39188633, 19378283, 16373743, 128147476, 113498820, 103308501, 26920343, 34603606, 67369800, 120167641, 99685922, 125431160, 44174627, 40582530, 74291824, 35048695, 119206169, 20929420, 133736309, 8041483, 28122623, 42849209, 26505555, 10024337, 57105228 >>,
       << 8238741, 93329497, 64163504, 75896671, 132119887, 90100336, 12907499, 65184646, 112384990, 126058820, 124573198, 79413716, 13380076, 27569515, 123585093, 72953400, 51292322, 7886725, 10715605, 43476543, 105656791, 64498654, 13271722, 114784704, 94206093, 118616215, 11597807, 106128063, 66506548, 15570079, 27283534, 117696205, 18150476, 105050992, 94680583, 13121267, 78244475, 91515709, 41531940, 124315523, 113762392, 109644256, 2177526, 133729011, 18167545, 40729055, 121629745, 62267690, 89792586, 116424714 >>,
       << 578224, 21685822, 130278362, 125205331, 69894489, 74577463, 107777407, 87940069, 11846714, 38832971, 12350130, 16002927, 17786534, 112794262, 71620955, 61656478, 114230613, 84825727, 40141026, 42562292, 18349903, 121955454, 65039075, 125344140, 93576651, 10077458, 103697563, 124746806, 81546931, 28605389, 130158019, 58537694, 63946272, 113968723, 68461297, 49459554, 65882046, 51078488, 39535714, 115452250, 57539581, 25168816, 81228073, 9629799, 32056846, 74371081, 105846518, 129383694, 10695957, 5034402 >>,
       << 123207939, 85517115, 67017197, 40488852, 82499100, 130275190, 14924843, 88264438, 132321691, 50861919, 16389894, 105019654, 77523534, 134050740, 38422247, 22725647, 33487805, 86089330, 20367776, 15967936, 46754892, 38112316, 117706069, 6427033, 10218687, 95292774, 31872495, 11059697, 123491216, 45032119, 29231948, 44492673, 6898679, 55158740, 80102746, 89048019, 58162241, 129629059, 88837319, 24903576, 52148427, 8915990, 54562184, 73533532, 33993444, 109273196, 46223778, 45249515, 22443981, 133994971 >>,
       << 43375811, 23555259, 101691393, 88045225, 66685824, 99266581, 41860882, 119912962, 10073280, 270663, 18646960, 84959363, 48759172, 37983040, 65304816, 96725875, 108545376, 8724766, 125391198, 94970680, 62618567, 78349529, 72853850, 80156261, 94594863, 82353546, 37032984, 69873267, 70559846, 122795992, 122114224, 48169137, 57165857, 52402189, 81135828, 37893226, 68005917, 76532704, 131798426, 127458274, 80246671, 29649462, 131689288, 7832182, 4110486, 49559121, 14222635, 79302151, 132930427, 84378401 >>,
       << 94053903, 98041883, 45732425, 58074117, 60588258, 46690065, 126041196, 89041118, 123079607, 53940820, 27945099, 49072728, 48863529, 104461246, 67761937, 39761155, 118985720, 19548080, 114318309, 132945745, 24727121, 60163745, 85651248, 97228794, 11599367, 61160970, 20946328, 52306833, 54251790, 17887066, 102062065, 87699225, 48536525, 54370744, 49252313, 3474941, 34761123, 51376074, 117301563, 1073065, 63942794, 3027327, 89031563, 5749005, 11140488, 39468102, 115295903, 134074776, 87766247, 123612024 >>,
       << 36836644, 14929252, 112586155, 29861067, 683656, 132449899, 109845369, 50744107, 68349575, 87010934, 128274681, 128985705, 56502886, 115581046, 24163569, 34987476, 5439207, 105690191, 94010618, 68712941, 59737587, 104425330, 108451507, 13771734, 117702074, 690967, 460418, 129978412, 85653922, 131595849, 109082883, 55277579, 54918951, 72678279, 80464207, 7918105, 90236701, 36499616, 132644086, 130459083, 107938831, 101964708, 13460777, 65211223, 18196649, 71980784, 18886930, 1034506, 63312164, 54713029 >>,
       << 22615758, 25793154, 67310485, 96652205, 14941208, 16336260, 47133823, 116793800, 106400245, 88530136, 21654388, 18791420, 30785315, 19169679, 74116934, 19875393, 24290898, 23486656, 74633968, 20806860, 38105554, 1767776, 71947418, 37274678, 63222248, 43854589, 116276602, 20876851, 70599711, 25850974, 48038653, 134207490, 81335364, 79330095, 79926049, 39884173, 4288227, 172983, 36630640, 12384194, 5236333, 97480978, 100839029, 74389476, 35967208, 60716224, 81247298, 107714259, 15545369, 30624865 >>,
       << 50066663, 119441275, 104925421, 13660659, 94560557, 15496941, 125629471, 33054430, 46577480, 89525082, 3986434, 110869570, 114486908, 126928728, 103925233, 42200544, 26070440, 42773098, 129812982, 104658780, 126658462, 59457952, 124506483, 19544638, 22109952, 102830035, 86319246, 71217618, 79463428, 17616344, 123954871, 110815798, 1027542, 106239460, 124752817, 58610285, 38824934, 15792082, 85839833, 93980442, 125628898, 89242012, 48235731, 128379595, 65682810, 74695459, 131606419, 5494184, 80368898, 101894189 >>,
       << 62325513, 70355705, 32247700, 3920587, 17129638, 124370742, 72537891, 2307688, 114284692, 9769429, 3184937, 120118821, 40279000, 13734052, 83491436, 38614230, 122142630, 116329446, 95602621, 126597147, 44215127, 32559181, 40437424, 10361782, 82310958, 44683274, 116982429, 101878540, 16944674, 105581480, 102289003, 68523330, 102133040, 121653624, 12832144, 124800329, 88018173, 35250543, 38642788, 63019381, 74580788, 55027980, 107356391, 60952599, 38632833, 98349905, 118619742, 84397189, 17299703, 73900640 >>,
       << 4887223, 23526512, 11408835, 86108646, 68442906, 90480824, 74553321, 124331032, 81905450, 29967148, 3029672, 51744408, 29798083, 101469775, 46218260, 66803099, 131713063, 122504112, 75060646, 86231589, 95344044, 129931847, 3347052, 90420950, 133598551, 30513661, 62365495, 74935254, 78541908, 103764921, 15489892, 89608371, 19583570, 13065677, 29785413, 110582978, 88671386, 83290836, 97359572, 121453748, 96465580, 59677601, 33632413, 124978591, 123173260, 121313969, 32151962, 110329563, 96703415, 54022294 >>,
       << 80028838, 77270347, 1844257, 42806931, 109296341, 44551385, 74161951, 43374188, 128556644, 46235405, 122804734, 66167563, 105259963, 49939933, 79504741, 76794695, 41078819, 93666893, 103100132, 2799227, 73112591, 101946482, 37347070, 25041333, 77297675, 120097051, 98860856, 88945, 111953097, 56250899, 80898773, 129486392, 57703613, 76026118, 85581622, 6555051, 92539157, 40001891, 48222564, 119972276, 20565671, 69769314, 81569064, 107508753, 72910006, 57599647, 1982755, 50635273, 8949314, 97695437 >>,
       << 6505659, 52144567, 44501157, 56422263, 61699587, 32291810, 31343627, 60713000, 101488201, 36690888, 49828955, 59599673, 119947685, 5802405, 11139313, 53562697, 42727864, 19314149, 59614060, 55616403, 12513577, 124345139, 29886356, 56137195, 89104753, 75180553, 9276071, 40109750, 78885917, 120650773, 74066316, 7863308, 18792282, 48011607, 29521456, 85230710, 2750884, 68723270, 37628327, 26098808, 64278296, 97024110, 53481505, 82673451, 82380239, 21572683, 85919174, 82257967, 113934680, 53387741 >>,
       << 39696365, 36151981, 40438993, 61717603, 103867341, 112389056, 66960840, 115384466, 122057326, 24206172, 43366907, 107737558, 117633705, 108930044, 1228131, 71337227, 37847277, 90638858, 24720986, 32264369, 99850827, 18903037, 120924016, 33625868, 23368501, 28533596, 40464166, 68757564, 639872, 102917128, 4282852, 36763130, 10739634, 60984401, 95219162, 16913988, 41314124, 14845948, 96656398, 44425264, 45903538, 33098160, 126472940, 117186242, 53461642, 80577960, 14497174, 43973507, 71749735, 45370500 >>,
       << 42322243, 61543645, 37821028, 113527331, 128404487, 78511877, 124576405, 3864700, 51562789, 23369610, 111950517, 66972974, 75577947, 108581168, 50844847, 2006059, 21763610, 37252186, 22084483, 49515955, 60690357, 8245547, 32099757, 133781437, 102393214, 28574272, 29745767, 88202384, 19380893, 83293187, 106680037, 45357151, 90685083, 80501614, 39073016, 48162197, 24331410, 124945628, 29828702, 113860049, 11081940, 43239383, 85904169, 72185025, 123698089, 108774095, 18696461, 70512724, 51925466, 30381501 >>,
       << 6186113, 37518437, 2718687, 122359379, 111150979, 18766517, 81215263, 58395899, 52654955, 24672036, 121443024, 118345987, 92631513, 82844097, 80543284, 12166283, 59407700, 21197225, 13315575, 65145653, 39660101, 127678436, 21068735, 80562685, 18634058, 111296064, 17585470, 3549093, 40538516, 11678669, 54662975, 62278465, 72688845, 124501865, 103226671, 23734184, 121490201, 16001903, 48208672, 91871637, 32311297, 79234132, 23634793, 120775436, 54508531, 51331534, 81084098, 28174456, 63731819, 115217580 >>,
       << 132945042, 111966149, 664949, 53179088, 29701146, 132365856, 16938532, 109978907, 47640750, 100867879, 4431462, 130349099, 28917053, 16255108, 112608878, 30954383, 78701173, 21057613, 67123852, 6060961, 40543196, 71355354, 104721371, 125845367, 110236189, 48089112, 1018703, 24823106, 20296909, 6050973, 56101245, 12780167, 90117061, 78522560, 6542972, 14259681, 77370376, 32126291, 86300248, 32684519, 28406702, 50153380, 83080126, 30291991, 65687367, 81093723, 65392698, 11375304, 81027620, 8293873 >>,
       << 276712, 7802724, 86721785, 2909691, 24670174, 95124556, 78083477, 86977257, 45847650, 57752132, 13347955, 50570940, 19625973, 24723692, 112969229, 45702751, 50542762, 96038433, 96360493, 90867455, 37684709, 93954271, 66065913, 8588637, 69004387, 99316011, 49454698, 47499299, 130168037, 80490654, 41487284, 329821, 97588918, 60330473, 77761337, 133882304, 83436326, 108970764, 120597066, 19143006, 30454606, 63145, 38339920, 106558382, 104640980, 46188173, 97570424, 107884401, 131186558, 29151447 >>,
       << 18349768, 99710328, 31451618, 11119104, 129167539, 51683321, 87360918, 84224928, 62910947, 62474755, 122950018, 104936781, 71735969, 103130156, 10129246, 38233775, 44492862, 50579208, 38872850, 59202385, 98504657, 38646632, 112456576, 32891778, 59584335, 1724501, 105008102, 99333203, 15873894, 82535681, 39689300, 126833190, 101594363, 47344466, 26281402, 90956557, 82447104, 93858404, 122465348, 14013687, 123479867, 10774925, 89936616, 60580480, 130732756, 66968371, 57432865, 130083347, 56468105, 95495700 >>,
       << 57446677, 45631522, 7840102, 46251543, 23729042, 88427126, 63207342, 86986860, 120303477, 101960612, 56115154, 8978692, 16780117, 3557133, 105193615, 77242120, 21491073, 74326331, 11615274, 110241997, 93991762, 86973489, 43104315, 63993682, 73476150, 7374466, 54597014, 88876411, 9956150, 106992141, 96819464, 83879044, 8036166, 20921814, 17722837, 33005009, 9294238, 90620110, 15284337, 52451159, 64217871, 84028831, 73429776, 91234857, 124468274, 59297263, 3226649, 51859315, 84449730, 110851177 >>,
       << 64132366, 84907623, 57388548, 27447226, 45003155, 33027552, 18184258, 20289508, 26631817, 91798933, 65269328, 16522764, 72363632, 47746041, 78621217, 20845672, 9611642, 116635836, 18530031, 50808227, 109888811, 85330116, 69365967, 96698735, 38182780, 86855181, 68803866, 49343037, 55577557, 29617857, 122354872, 66837769, 11245841, 11157038, 38395262, 113521770, 20430878, 81372722, 41818089, 25845654, 2895539, 5374399, 3881308, 126025039, 100187850, 32862031, 60875238, 111424617, 45184673, 103738108 >>,
       << 121914062, 32971677, 76476937, 100977564, 72192225, 75779237, 121851424, 93535058, 19931688, 117266226, 32653792, 94360298, 93588870, 9817970, 27807105, 19220143, 34850048, 58700627, 46248692, 80455234, 88409967, 84069839, 67404793, 114280584, 51015999, 51001316, 82222559, 28010136, 17020143, 130311829, 64256437, 101329785, 129445181, 71856498, 95778524, 34608672, 13862208, 65885973, 88464367, 74322289, 27072445, 107568445, 91672220, 66697125, 55396292, 45969372, 76520840, 9607081, 118431662, 132262400 >>,
       << 45745053, 120194227, 28227237, 123393054, 70302293, 18718144, 5535692, 12649696, 13201902, 104547991, 36881809, 89563347, 116876555, 4071341, 109323710, 52054365, 107888029, 47392175, 21967075, 93996613, 57441199, 52736741, 39303932, 24694600, 57858924, 59742517, 116205526, 106436830, 117685374, 29572055, 116971359, 119116564, 49499531, 8538080, 108109983, 19394450, 65478354, 24572406, 133335005, 37533969, 42402423, 126576326, 46362322, 29609418, 129149142, 108420879, 122082726, 33407750, 65633669, 127531303 >>,
       << 111994325, 49047374, 90280376, 52647157, 42146428, 124869772, 100847299, 51795004, 82355334, 62983234, 131188142, 55127609, 34920461, 70992433, 59228514, 68626770, 39393597, 79011369, 57158027, 21440306, 22103878, 37404073, 109272814, 107665377, 77545140, 38651896, 95047330, 49339530, 111462585, 16148236, 2909870, 41181628, 54599235, 83949738, 18534098, 42265353, 780283, 128657609, 55468928, 77657634, 17396478, 130284432, 76166228, 56211276, 43887994, 51415792, 71649701, 124662673, 44802258, 115259242 >>,
       << 14744772, 19192400, 109846933, 90216838, 7279515, 116281946, 56599806, 102799459, 16961542, 100756418, 60036941, 117550039, 56088329, 95423695, 66060625, 24068341, 80165167, 126789824, 31060001, 99280192, 42892856, 94241429, 2923920, 82394780, 59169839, 78424329, 104371217, 28925378, 34547727, 91914288, 117754006, 36143610, 116296003, 18586879, 9791079, 17581235, 77246064, 14797107, 40421249, 58664720, 116591789, 105036187, 88146576, 49828067, 120934783, 586580, 24970733, 19776212, 105686005, 26291051 >>,
       << 39286523, 119853690, 66226744, 61937331, 73833690, 132065680, 115028721, 92552967, 125482588, 114702675, 93849700, 89674912, 97968489, 93822380, 839179, 38503642, 122233134, 46290206, 130522142, 66135332, 97044726, 76133355, 62228848, 115154722, 117738559, 18379820, 50141100, 15598434, 115966658, 69759985, 39098525, 93699340, 87971567, 6971209, 61599960, 3251740, 27328312, 30894000, 87205292, 82002217, 71095101, 17979051, 12563750, 39272770, 60771579, 74558024, 91353188, 112860454, 127081937, 126667119 >>,
       << 132210394, 127170933, 19329805, 103907508, 32616985, 25913130, 59687613, 86584886, 98131491, 118223126, 20946019, 93068655, 7529652, 124348002, 76153263, 93780178, 94376564, 36202036, 42500868, 8594133, 96337154, 123819738, 52976745, 65530149, 53714074, 102802363, 97957984, 59762729, 1577154, 53072931, 26458389, 54626097, 84575982, 29488936, 90046989, 18874336, 113910902, 115815453, 105202985, 131470601, 108449525, 69822750, 57222186, 26905453, 583081, 15142946, 9041390, 132666106, 18564766, 118551948 >>,
       << 106538722, 110788858, 20340520, 3632821, 110287519, 127392534, 112878659, 6578058, 119633805, 119200820, 96642322, 90716290, 69523757, 39215457, 67562491, 123226082, 36026960, 16978567, 52035978, 109670215, 33974167, 103781821, 129478454, 116726185, 72898620, 27318709, 27459975, 133258239, 101030793, 28523451, 56755255, 113966325, 60580360, 90690259, 77343932, 51140399, 3079083, 127103735, 106029799, 68385115, 22331898, 125963979, 131172771, 92789793, 72512113, 81235551, 54421487, 66943149, 97144329, 99329998 >>,
       << 85649359, 11515071, 93591614, 27762332, 51162535, 1171326, 114329522, 45039197, 85914779, 90889346, 33983200, 81415077, 123125238, 38391676, 119541360, 58366716, 117669766, 122940918, 80449296, 17861801, 3224827, 75469454, 132254347, 49723863, 123108108, 56278367, 37571801, 76270465, 95991483, 111929992, 6979130, 15263861, 116378441, 25205716, 19538254, 35104776, 83433985, 49605688, 102488355, 116389001, 12560324, 121882685, 75688787, 124893415, 28876806, 50224330, 6699946, 110712199, 87655433, 130073539 >>,
       << 119453635, 117389469, 122731, 10394529, 14533256, 120651267, 44533750, 39161178, 52546836, 14726965, 63779384, 46302514, 105640513, 120746329, 71215433, 96018718, 92734130, 120068073, 95090802, 86205603, 8054992, 72597478, 117812974, 6548156, 29089965, 127729458, 70319709, 98482041, 68393472, 77453973, 85754703, 101647396, 97744479, 98690011, 4794568, 38364963, 34263221, 85638611, 9145290, 8220986, 37828666, 8245778, 36499069, 32479386, 8573074, 46784401, 54447687, 51668735, 119940292, 68312956 >>,
       << 45624694, 10180118, 92221481, 28665803, 111888977, 44315034, 25626483, 70120801, 85135030, 87849551, 13828160, 36834775, 69129054, 86667907, 29157658, 64063707, 41646995, 61482655, 42911928, 47280021, 67872004, 6702656, 26452300, 5645571, 83814327, 85786832, 1613599, 13839095, 123772152, 54132141, 69299246, 125009975, 42649180, 51195094, 37826882, 60046150, 14762588, 65371853, 112849585, 109473582, 60505750, 73674105, 35200483, 4844145, 12242063, 129126392, 124438812, 81631010, 4993136, 20772573 >>,
       << 119262820, 62087735, 106073588, 122392768, 88188826, 13785164, 54331127, 120454737, 81377462, 70748214, 93135674, 74994765, 86682914, 94393210, 27408056, 64925522, 94184168, 13801703, 58509729, 12537120, 14321446, 49098675, 69250561, 124532980, 52245891, 56947676, 131661231, 107217569, 69438761, 131233530, 56692915, 15142813, 11433666, 76336362, 76676742, 63085393, 110944607, 111616066, 51724842, 58859940, 47814776, 77731187, 98763196, 95671307, 69969884, 27107234, 89119979, 26737006, 21452202, 55542411 >>,
       << 8814465, 63953458, 116740584, 5594788, 96558536, 43063432, 116076527, 3769354, 44672955, 130143759, 131404628, 71982274, 27833987, 50321442, 25446515, 34303825, 47853595, 86385726, 72359263, 8989077, 78928406, 46677907, 56637467, 43909202, 59019781, 94702587, 20126105, 73206688, 49609223, 33140200, 48955383, 127755859, 32133795, 132525093, 33214205, 77645282, 88064760, 79626949, 103409890, 102151043, 68340964, 21890169, 37888143, 21370463, 52062562, 53711215, 88510975, 19062443, 12651946, 62830616 >>,
       << 121523621, 104257212, 94005973, 64689969, 44983217, 75102612, 5813554, 8930288, 91445148, 44325522, 72400512, 109304761, 35928024, 124692368, 57085807, 57412571, 73558429, 65079143, 81168485, 116636138, 27919635, 577198, 109358893, 117436781, 104202324, 27164831, 867056, 20350750, 105856597, 69180976, 45764539, 27448673, 21151411, 120923480, 110827847, 62012067, 23994037, 64288929, 101193427, 51572981, 57713287, 79527623, 75185498, 108866553, 86885711, 29793459, 34231730, 42500820, 9345898, 85627064 >>,
       << 49791464, 108851399, 99140241, 95310744, 8218152, 22093112, 42940975, 16882164, 117412032, 69505854, 49743329, 126619368, 40241725, 57239714, 14293562, 129960451, 32018064, 592997, 107883109, 73063903, 62695212, 109814856, 25560882, 126349466, 122844950, 1027311, 71829418, 122956523, 75739453, 123998081, 63337529, 16785489, 118917052, 96913293, 113061002, 1070085, 85752856, 61294548, 102747123, 111219706, 30032596, 74567327, 116102250, 95968977, 113361785, 22403250, 127524430, 64931883, 106482726, 63768965 >>,
       << 62967268, 61187250, 123460694, 100246613, 127523810, 101424093, 15563032, 16222974, 117953187, 101999492, 67278338, 39257265, 18818473, 42820746, 17216331, 93052352, 98312843, 64522685, 87573473, 67639602, 123687234, 52336313, 26631419, 147197, 104721068, 80871433, 8251507, 1156974, 59402803, 121789169, 11132580, 19653080, 9822504, 6449155, 111035686, 18999328, 96143914, 115098345, 37400852, 18899505, 25966045, 39621513, 90615177, 38959030, 65613654, 29072409, 119245468, 90974184, 129427762, 6956379 >>,
       << 46814976, 99168026, 88402082, 64884670, 113919482, 110280100, 92843711, 88881010, 60000056, 132265613, 63035498, 12607831, 101655335, 83086620, 111966932, 124543269, 105186868, 95538056, 121237673, 57336898, 125450032, 16147671, 90980254, 77795790, 78190445, 84677537, 63718088, 14540669, 50492469, 48957873, 95264613, 81861257, 58317937, 46958354, 103600078, 53520789, 54040872, 103302719, 61103822, 54588986, 39727861, 5461577, 81504474, 81792282, 97097052, 91437362, 50684327, 70332126, 114715141, 31477910 >>,
       << 26141770, 38597269, 104552749, 35703830, 2157922, 2344166, 82542998, 95750915, 49210325, 20446613, 21673059, 125650493, 110611522, 112692696, 37788857, 126832589, 18577030, 132394184, 90525052, 50984196, 91556726, 95649791, 48926292, 26343807, 104734297, 61591580, 83771055, 26882569, 128471594, 93221937, 24467753, 17070364, 112446079, 11843840, 77773189, 10192332, 102037558, 34678200, 32732649, 132080220, 83720583, 94411491, 1783108, 61559591, 2852287, 48566117, 93050392, 38186811, 64188387, 90162354 >>,
       << 32648014, 56550416, 6720126, 102309213, 15303191, 44905887, 66148102, 105842869, 85971790, 78751425, 15339663, 11088535, 121852637, 126793360, 44124481, 4985096, 100021953, 94234134, 12909427, 5886282, 9293611, 53279797, 95138784, 111240197, 122075111, 20319496, 56245148, 1196331, 4124511, 67634912, 4388477, 18059037, 53865025, 46794884, 75232398, 76748461, 96337164, 28042768, 89848654, 35118629, 113373109, 62911386, 122102573, 45132604, 80245204, 61164938, 115899295, 74666074, 123280841, 114607268 >>,
       << 27287550, 29616088, 42767741, 38791927, 68128931, 67161703, 95795219, 27785216, 48070969, 66034666, 120048483, 11980116, 80547146, 25084092, 14468262, 38075963, 76565177, 54078961, 63349917, 76522141, 12252693, 109817227, 33842880, 51593818, 32543232, 130231352, 120292170, 95412772, 67827904, 124034249, 55454417, 132197910, 85036366, 51987708, 114496281, 38068331, 91104130, 111636186, 32220998, 109026811, 20906603, 3079725, 117654776, 27872785, 12296926, 126488296, 133535169, 127467722, 66418337, 92969033 >>,
       << 18617215, 109694377, 88234692, 54716293, 56812031, 48971640, 19629704, 104512685, 69584869, 19057175, 41658222, 52726815, 72306586, 44704247, 35415982, 115200610, 119315738, 79489729, 121016302, 22340031, 132674395, 96717861, 66848478, 89900450, 17251768, 38936328, 350808, 5287868, 108829640, 4614759, 92503676, 118189410, 98601368, 90637404, 88292310, 18958287, 2790536, 73296885, 52495636, 89130077, 6661158, 11591136, 40828255, 89461443, 100164404, 50598783, 106020025, 2344518, 42899951, 11544934 >>,
       << 79084880, 3233001, 75091911, 102769193, 45354912, 37554571, 27980569, 110582189, 19225466, 66505859, 117764196, 15373513, 53773579, 128091827, 87470016, 27235221, 97929702, 7653101, 117991911, 86565693, 93425470, 97373750, 26594902, 132654354, 31470269, 42985676, 120608109, 56479971, 113416093, 87973637, 122081256, 29134699, 51189221, 80298801, 95666149, 102358085, 111750484, 120361339, 26947218, 108961109, 1726506, 12000294, 121745479, 7813136, 7632213, 96956457, 5062191, 79098923, 7035055, 70641925 >>,
       << 110159924, 79884868, 79006498, 31513804, 8853873, 74228356, 59507748, 69932957, 15295191, 97592184, 476674, 108654923, 126233439, 41570260, 114569313, 110588655, 71362827, 129812236, 6020320, 23285456, 70696145, 86395574, 131855122, 127286105, 30956106, 45086729, 93820917, 127753708, 37403668, 8652877, 44976751, 72981578, 118216446, 126610956, 80548980, 101468358, 24120341, 83885180, 91663033, 6787706, 83434777, 99266772, 30885530, 6626186, 123945029, 35233778, 94794910, 29611798, 85007767, 59523081 >>,
       << 55990141, 57001939, 11881015, 32539947, 103389852, 56033776, 52869451, 22869853, 71644025, 122968939, 86261359, 3319545, 68698664, 105880292, 108820311, 11052484, 18834844, 132210543, 18401973, 90513632, 85253681, 57591398, 69781516, 8963036, 46813817, 114494367, 132089313, 116127463, 102144017, 76783086, 40681370, 104664299, 61587674, 120008025, 93604459, 131720300, 34418071, 103227331, 61471521, 113656133, 502763, 117013020, 46638324, 122320745, 96342524, 29566552, 9885154, 133346409, 111160297, 115851930 >>,
       << 133931224, 11848331, 4876917, 131463334, 46822059, 91386254, 73615758, 127087767, 28466364, 90508809, 104656932, 99546853, 32817159, 1122998, 115698091, 82258413, 58069352, 66732339, 124804848, 27219757, 81156129, 60111368, 83045054, 67624015, 38952120, 131363183, 18724468, 12705652, 74853166, 78454227, 132531340, 16749296, 100260111, 41396067, 18781196, 89558923, 56665481, 81390183, 31243272, 63668973, 134043003, 54786586, 98441527, 115898934, 47778592, 86924611, 3863004, 101665648, 97774028, 13937948 >>,
       << 54430126, 109024319, 65205893, 57329867, 64281729, 92620850, 116336429, 13192745, 68328515, 66469934, 64252205, 53435899, 116733589, 120519729, 16812821, 88342383, 71238793, 72838996, 108782309, 128606165, 29090885, 54917470, 124397949, 31700552, 58041409, 73114697, 70593774, 121608249, 89228124, 89492116, 47987541, 3298373, 11781845, 97805762, 87877765, 53218974, 117990513, 104144479, 105000783, 85883279, 21671468, 61725422, 124059918, 53890850, 23071700, 79473610, 21329251, 24706188, 57057864, 58016337 >>,
       << 58382207, 59572971, 69084983, 111508426, 92761879, 69105851, 1502307, 76487458, 93849999, 92313151, 26134370, 60068642, 86380028, 53295450, 11492429, 127453470, 53039291, 132809850, 109658952, 43602595, 22683880, 25133787, 73859604, 123047685, 86009920, 80829458, 90728271, 119720961, 95848327, 72179030, 129849739, 81764926, 90698, 62250122, 39115599, 77950994, 78347188, 32458878, 108504764, 42680043, 75913624, 71868311, 14250228, 18197113, 43413911, 45821717, 83548775, 63971013, 64461050, 62391538 >>,
       << 20440544, 58228228, 43314217, 130799402, 80968403, 112198754, 66572741, 51027154, 39780231, 3347059, 73691521, 112555606, 25227694, 122424681, 74765139, 49574325, 128794257, 99596542, 71430821, 3306687, 42558801, 3936102, 124054450, 9722710, 123273079, 95372766, 126324434, 125502686, 39045119, 16750164, 103778045, 59165422, 14678110, 119714377, 127134324, 104784914, 52013608, 44246409, 64806485, 74012494, 78210326, 25296149, 76726526, 9391350, 127962830, 110456469, 18666346, 79219503, 128482085, 127373301 >>,
       << 115826172, 47309011, 116420801, 53214873, 47099533, 107566434, 12457090, 71723698, 71521518, 59243865, 10774838, 87011630, 15321054, 112946031, 131130131, 41388702, 70542438, 57516393, 5285199, 7527260, 117177104, 87441279, 48460784, 103866780, 5850133, 585564, 96421924, 80996246, 24647162, 35150315, 36207877, 79774433, 94490086, 85711029, 24286300, 70176141, 127224199, 60022936, 75320054, 112108129, 119318703, 65937854, 46919936, 85825795, 62150261, 133200094, 6682630, 84081951, 31261261, 86243003 >>,
       << 2236109, 103876660, 18964413, 79141563, 26330424, 2418315, 16574707, 13646635, 98124755, 117734251, 20122658, 45619988, 85043049, 1770702, 8564145, 86402126, 68071981, 52536177, 112154100, 83961787, 4849141, 66224048, 36941691, 22939871, 76721626, 101231749, 130062236, 3081333, 53888440, 88794105, 86319175, 80628178, 46255395, 20029964, 133608861, 24314630, 21750109, 30475736, 114216880, 25371524, 54770806, 81165232, 28295863, 110171255, 15980798, 85092418, 75268425, 2104170, 51598902, 22568467 >>,
       << 118975360, 5616707, 1830740, 105019873, 127805555, 66904158, 85756894, 26248368, 2659250, 126221057, 18267234, 109036635, 35121991, 105427537, 23187599, 121426581, 51659693, 87403693, 95373192, 56837790, 18641879, 34837871, 94187158, 108035901, 77070198, 60563375, 48785465, 32107299, 63025092, 126861348, 106381645, 98620104, 85235819, 38692335, 133431524, 3339687, 93588167, 108578445, 43839745, 66413366, 118665863, 104944117, 92661175, 12350942, 108281442, 86167913, 102359831, 37190316, 40946544, 52482924 >>,
       << 126974947, 89032699, 128987409, 80203348, 49322141, 120969291, 54761738, 91038453, 104283522, 121912268, 66577067, 34321106, 6670580, 96685230, 51060371, 72846692, 121227883, 66162202, 105895885, 27954684, 48571652, 86696765, 40792644, 33977489, 126130342, 50019954, 29376208, 34143101, 44332968, 97247937, 8802465, 37673225, 51112422, 87955076, 57597843, 120302496, 73681919, 130886863, 72002332, 88940721, 110423778, 56214824, 47504462, 124484051, 117306080, 69003124, 26659217, 89423512, 100332895, 117115827 >>,
       << 35925787, 68004971, 26615260, 105568806, 39818848, 75371889, 99510277, 114910458, 30687661, 88764955, 126134961, 124396892, 47402173, 87901087, 73421474, 126795483, 57573972, 84554626, 21477671, 114712671, 55900464, 111685926, 66373810, 28968791, 58274194, 131350488, 52564632, 111383318, 40226871, 69469109, 42035628, 32257563, 20704087, 3932382, 115518068, 88985739, 108904807, 61837216, 63453077, 48978544, 70400542, 63216489, 614102, 124059010, 68168182, 120942538, 81731591, 39020810, 32709288, 21349759 >>,
       << 103769035, 118624548, 87301166, 54829712, 103542738, 107935465, 81884091, 75276371, 29318931, 88165909, 111282702, 87084206, 33799010, 40368134, 32729670, 116939547, 130915536, 97817906, 57797316, 133790492, 80136436, 92678525, 45260429, 116302424, 71883251, 4251180, 47785681, 3191589, 102429462, 97181650, 106091808, 41017149, 42832536, 107335241, 7995804, 48476510, 133483034, 96734873, 4279007, 79977755, 23470447, 71405397, 36123349, 53806952, 62207378, 22170750, 98356946, 110425184, 1099317, 6863441 >>,
       << 61456370, 26450788, 37629829, 23114350, 123180463, 132313392, 101758282, 81001528, 101802434, 26326944, 76120854, 6130851, 93542103, 62738810, 59973391, 30504538, 122766046, 99093490, 65769687, 121733528, 19042608, 113351748, 130474335, 79227448, 42242651, 36190613, 85219696, 105826514, 123760271, 46353381, 89517091, 84407627, 130123253, 92023041, 642524, 32438964, 75460982, 124201880, 3835587, 8514187, 56600975, 18482756, 44974011, 75040406, 133252269, 47132448, 14755720, 47559697, 5160879, 90809573 >>,
       << 17804687, 92493148, 93576858, 85365934, 653045, 40251543, 133205346, 46103344, 3108433, 88306356, 24829127, 128771366, 75474249, 12645091, 41829207, 28147836, 46092741, 30464181, 118744887, 8687938, 18692391, 121984549, 62276383, 80077658, 35543975, 103586382, 91775409, 92162557, 90239362, 91878252, 31211039, 110644285, 30037513, 100743395, 65964097, 83274119, 115222227, 111727634, 101795079, 44373957, 25245107, 10558822, 107036925, 96844898, 97292207, 121553968, 13498326, 14988809, 19090624, 32078118 >>,
       << 88156936, 47324209, 77323431, 3918150, 36879169, 133380035, 116626785, 22396888, 53835402, 48045883, 24783380, 118771854, 61836669, 109671325, 35459306, 19996714, 74002375, 58268094, 112809030, 90683403, 51043561, 121616118, 24585821, 108196179, 89635689, 46163652, 14899442, 92865342, 6860211, 70272722, 48785107, 66559938, 29990206, 70938057, 25828705, 74357588, 95953914, 90851587, 46989269, 46783145, 39266149, 45932193, 128118865, 10770572, 34835414, 84814966, 101548996, 57900035, 131103761, 5499946 >>,
       << 107130755, 81017646, 110568182, 121984729, 83994747, 10847701, 78463726, 31158687, 43510560, 12585191, 10521659, 63973063, 89330247, 121047893, 123904374, 40860764, 46173586, 111239295, 47980037, 41965117, 101441608, 91840242, 29517099, 92427396, 60902028, 93756133, 4194388, 123991182, 102658952, 56086773, 18215017, 63606627, 25028516, 72989783, 113440966, 14449015, 55798756, 61153289, 26816211, 33212275, 59359381, 33578563, 51710231, 12813544, 133907348, 113204736, 18843795, 113528880, 11659353, 89630699 >>,
       << 42608828, 111461828, 63837669, 50271491, 129294984, 56798044, 96521577, 96893614, 102340545, 116700703, 100282597, 22385662, 102146475, 57096487, 34537995, 118510252, 13623588, 23327018, 101100502, 56950588, 3858404, 68947038, 34566241, 70560818, 15908597, 68607270, 130957155, 105164436, 87912977, 59334361, 52647572, 21445813, 1894564, 79075105, 83407761, 125212969, 7947134, 56894416, 76640998, 31412502, 11252313, 81001384, 111703788, 57913253, 32279221, 2708193, 106045374, 113290816, 31523901, 123875870 >>,
       << 83009162, 80223665, 45100797, 127482733, 9899046, 58495655, 99956187, 66313197, 126302226, 7961300, 41710127, 45041703, 4360211, 95600191, 44282473, 96784883, 82617088, 110260675, 79211679, 72457828, 19171481, 123169635, 110177855, 16782946, 122725943, 90889510, 94475699, 97116587, 56206761, 59151525, 30543125, 90824971, 107888104, 13416165, 127190469, 23252333, 127811282, 102084531, 28898827, 37634250, 104910565, 30756225, 111103375, 104072312, 71271728, 123447806, 74632228, 71214939, 128482568, 5164470 >>,
       << 41416432, 67388280, 46191876, 114113129, 125595578, 12140196, 88257644, 39158335, 87270097, 20435137, 7675148, 19495081, 49566249, 81578435, 109509607, 32519826, 53786125, 39967346, 49159629, 6200582, 115295848, 91203884, 19428383, 74219322, 23582622, 105419072, 96952416, 31882942, 14370285, 33060041, 34272725, 17785811, 63267640, 48561569, 102959581, 49806244, 59265638, 50814392, 62620390, 24804155, 81386748, 81823674, 8579650, 14790674, 96413364, 44457665, 39299567, 79251552, 3259190, 100460218 >>,
       << 38283938, 84384133, 34730286, 26049312, 120165148, 11419363, 69972705, 114197748, 94925214, 27262744, 86825012, 40151852, 33384189, 58502641, 118505181, 82548875, 49997735, 30202191, 122856399, 106776299, 11348971, 118997254, 5118359, 92029872, 87667521, 114857321, 21043077, 89183981, 131710856, 78551698, 64935742, 64913616, 15931957, 91026955, 86237148, 14388551, 43042719, 2120593, 54760864, 19740391, 91713649, 78456512, 15393738, 127335544, 90348207, 125644924, 62773560, 81195906, 16979489, 52321674 >>,
       << 121232159, 104993060, 128841584, 45598060, 108568432, 8620974, 122098131, 60654935, 28672861, 115055878, 21706187, 68348181, 14971009, 112991584, 57359384, 18958869, 91980528, 82461184, 11191238, 99809573, 7190740, 98133865, 67567852, 65655526, 30680563, 110071547, 83020794, 20886935, 21036065, 13146656, 79685593, 73812356, 33042472, 53293861, 76128309, 120781538, 10135587, 105608714, 43253408, 59411958, 29236807, 91187174, 61808526, 58404773, 104423277, 64967606, 15288519, 103733668, 3611130, 48182132 >>,
       << 18375615, 75816916, 68967077, 91596169, 60561842, 65407506, 131375, 59333754, 86364990, 39193927, 46473840, 114144481, 79840335, 99386226, 83047275, 112808323, 97844142, 10868301, 50084701, 115882076, 26373347, 7580576, 34130969, 36797675, 42653860, 6861001, 1389459, 108563956, 132632859, 23834602, 788985, 17573415, 104168221, 86731757, 50638164, 99643409, 108302514, 69892950, 32753932, 75223845, 66352849, 74484336, 82264436, 4592278, 119058420, 28594677, 99962155, 126182390, 41564356, 85624361 >>,
       << 46468876, 118178409, 7420927, 22830570, 79785102, 42440768, 67511372, 53655557, 60745479, 102170889, 53230861, 6339223, 31908883, 87050130, 104570563, 6378574, 36534148, 1142034, 81146290, 104806747, 96479271, 105854710, 27610659, 36660566, 54772502, 91918218, 92579858, 61637911, 91190207, 46705847, 39942852, 83944295, 9235173, 72003712, 95426573, 97120133, 19622048, 32224818, 105871974, 56903502, 72706217, 67778425, 12919566, 5993292, 10135716, 119274707, 32693683, 111414740, 73747346, 89258921 >>,
       << 17738545, 59915762, 23155666, 9619513, 6505289, 116950287, 100709273, 42086931, 13439045, 32706763, 32825252, 37690657, 50371504, 8067349, 13495598, 73214705, 41675192, 21432300, 19984651, 392185, 13225823, 31544039, 71862479, 88252710, 73404334, 22690711, 48541458, 106849959, 31681545, 23328735, 4231385, 103474920, 73843003, 99352266, 26439128, 91958111, 98140550, 10307567, 118310758, 100966750, 90210201, 51906771, 70192097, 16315303, 97128648, 104654282, 85520167, 55173504, 29831718, 55745443 >>,
       << 112890009, 1213005, 31884632, 72138140, 75878688, 90830077, 89598978, 91297746, 11536510, 87041918, 125951466, 94142160, 64274737, 132923487, 32954882, 99090177, 51053150, 80561864, 1695218, 62526218, 100540644, 68488718, 79525475, 94815542, 41105057, 86975241, 65242156, 57500307, 64712102, 24721194, 6197232, 5736700, 3105095, 47457803, 17367982, 10843786, 34491159, 93784553, 96270535, 13384614, 104762752, 6758413, 129724601, 63604328, 122584371, 1185811, 61304217, 15319598, 58210444, 32406090 >>,
       << 36103797, 75246298, 49014146, 116952163, 106606061, 3702335, 106630059, 87806679, 90099267, 71555890, 112467727, 81424009, 43035707, 13985428, 24199907, 29083852, 61576114, 861645, 71012764, 49836975, 10861834, 102642714, 14781288, 118400498, 104834878, 78402053, 101129683, 10804971, 83512388, 35545068, 107179235, 86245917, 40793088, 48560924, 34835098, 125458696, 48770511, 56413822, 81269897, 63432767, 19027791, 82790229, 53073432, 46186621, 45423511, 52275832, 110421272, 15419427, 80535981, 24973139 >>,
       << 60870360, 57416478, 66909725, 10502180, 31719323, 58947191, 59880867, 98564338, 91852617, 108834619, 15613416, 92355028, 101367769, 90694897, 67246547, 67172742, 55737090, 100674510, 18973877, 113609582, 57130722, 32281735, 78470973, 47563461, 53793392, 14301134, 18048527, 99614414, 53918617, 102664804, 111290809, 51228594, 123972433, 104201449, 59138923, 73001397, 29361293, 126158709, 3390260, 49963258, 48782294, 66359778, 27846585, 61574582, 13213142, 26252609, 73077607, 113557236, 114363239, 70431143 >>,
       << 64132903, 100319660, 38452777, 110483240, 133245051, 6246261, 22263132, 97903594, 18762277, 29181001, 92260001, 87949757, 124504300, 96286197, 102196708, 128226822, 38747284, 89552332, 51107527, 129038908, 9240560, 40523810, 39878686, 105690943, 52476756, 118882863, 51172286, 23610073, 66335645, 56943605, 27486921, 97646247, 29314809, 113880, 39843453, 127698514, 91264933, 14824346, 9612455, 108117213, 61348078, 55847453, 104573768, 12987218, 91831475, 40022422, 23369425, 84048411, 90052354, 13725923 >>,
       << 50277056, 24906626, 39664236, 68633402, 30435778, 15125619, 80660222, 53255195, 132922523, 71385612, 98934835, 56572531, 27811113, 119074629, 123893943, 55788698, 35155901, 64316841, 3652487, 112973600, 33588245, 52116494, 42036150, 50614535, 72296087, 131125000, 75883560, 52009259, 79611948, 68520004, 121117280, 64832029, 124416164, 2932319, 29051509, 50654368, 73981681, 74991830, 104610598, 129022319, 31048131, 401299, 3799276, 37353323, 72649868, 29513045, 65286368, 91658818, 80980452, 123551997 >>,
       << 85992823, 30579810, 53897082, 97836201, 30469192, 92623016, 113137397, 10570710, 102744722, 46240074, 77397073, 130933364, 24310183, 100236479, 127787169, 19457121, 104617934, 128170788, 94884802, 132584465, 127243777, 79706422, 15249120, 88760953, 86415960, 22503905, 64767335, 125499237, 7737798, 51445893, 44269107, 80303824, 29937828, 37602378, 8645491, 5862765, 121848603, 35463333, 6694723, 50616239, 99700524, 125713876, 92018499, 19482232, 77713329, 12641675, 10999949, 72909230, 60621130, 22862496 >>,
       << 17217782, 68929256, 21055834, 37683749, 64399577, 16653360, 69604493, 25847589, 2741028, 11744737, 72004262, 15329370, 59908086, 93485775, 78301137, 103706914, 132728102, 126970004, 53751321, 87510445, 7171026, 113814259, 111049514, 64486044, 44918084, 90884888, 60156330, 70574403, 82251573, 97857921, 106039877, 112274629, 97600301, 69879085, 88069497, 33828818, 111753808, 77383381, 64030487, 120042996, 38233190, 78065767, 82450006, 60236338, 83789728, 80566532, 7634334, 42375735, 21639913, 124803492 >>,
       << 116534381, 18095485, 14288223, 65811317, 16675052, 14814798, 37468133, 73321166, 114577286, 54924440, 106102796, 45063823, 132586278, 56037099, 47774283, 69361537, 99021728, 12740057, 74207900, 83189631, 71744362, 88974218, 13690943, 133533336, 126229868, 119639782, 129909419, 1263412, 58071791, 10330669, 66104380, 28354745, 84804472, 107480037, 91900401, 114642870, 128522709, 116132877, 94833665, 42061564, 54543706, 115638043, 32648997, 12712149, 133298796, 54752059, 26859149, 111278646, 12632355, 22570450 >>,
       << 80044457, 61874151, 131676962, 128189212, 49193931, 111776932, 47298206, 60214278, 109786893, 23891892, 99971593, 116331073, 101105472, 55622207, 13872173, 56177153, 80085502, 40948257, 81712078, 55099159, 29248539, 65498728, 122655669, 75236245, 68064034, 9533564, 11902422, 77035437, 112632859, 119673488, 28354723, 70538895, 114480420, 92575534, 95365365, 79185430, 87009360, 77948554, 119059104, 78550579, 7187623, 52608499, 71189253, 131268936, 127206132, 22372707, 93643627, 6356704, 15277822, 102489973 >>,
       << 27807428, 86302259, 110501212, 1740542, 67053980, 10315939, 57179200, 133024284, 66270221, 46715690, 25303414, 106749346, 91706650, 93362837, 23050625, 15424203, 52213041, 29769947, 107706468, 132025903, 92751579, 26101315, 56585079, 123604220, 16177844, 107686967, 112417892, 32491014, 10318892, 63110040, 82398978, 115559159, 70717093, 44214396, 35938256, 77630956, 4916524, 101242173, 113801161, 6094691, 41670885, 92509181, 80805956, 112044129, 7554086, 32570966, 63917384, 90268855, 21923418, 80715400 >>,
       << 47950242, 100627739, 39708789, 49871485, 69241385, 104223410, 44682192, 67581598, 30186567, 45868421, 93260462, 56518812, 121306702, 129880600, 110102680, 116443914, 31463321, 91279125, 80222197, 123086954, 78651131, 73572616, 101804738, 111516817, 16597680, 20555256, 64670005, 114167129, 37373148, 134109081, 98316885, 29236279, 81034844, 84841384, 20686596, 19528669, 122242292, 43239132, 104313442, 128993179, 119719010, 45905919, 14205791, 58780031, 108544826, 36551388, 9360323, 111887502, 80557330, 94028092 >>,
       << 99289801, 24730437, 43308203, 74846712, 118190065, 117865642, 8961565, 84469965, 99194144, 113151279, 131728637, 121229280, 127329687, 111598351, 34099461, 111678736, 66240612, 116453516, 56501883, 120531586, 24092638, 121413845, 125501403, 14266496, 109910962, 94383922, 133071201, 24454088, 94847429, 25215433, 54467710, 108863743, 5009362, 16309371, 93444194, 72746008, 53038144, 31309099, 76698495, 80293626, 35046953, 48050953, 34656091, 13108761, 110704742, 27905099, 97083425, 103691297, 74471877, 33781142 >>,
       << 42726741, 31373954, 12591773, 42137826, 52292810, 29209542, 104150389, 7076128, 80947751, 32529201, 1164601, 120092157, 103590915, 107505679, 63121706, 80237479, 53679416, 69969907, 88782010, 98902142, 45321958, 104041565, 128571612, 83451534, 6193001, 87323688, 78805037, 57532295, 93383798, 88798695, 41051008, 48635466, 118370544, 105798456, 77751638, 72260050, 62386266, 18201448, 84508548, 37254157, 122764452, 97895698, 4309791, 75484499, 132240900, 100563748, 82044472, 81248927, 116265255, 23601112 >>,
       << 94303819, 14443322, 61861253, 64888253, 85369341, 104206619, 119726953, 25257425, 44106903, 87355671, 126930785, 102063815, 124249281, 12475223, 56175091, 53748842, 68212439, 8639852, 8931190, 117755227, 27675125, 28963196, 129250477, 83443168, 63145218, 25784496, 125400367, 57551532, 60776641, 3863169, 64185474, 92933775, 18265078, 16243550, 64266373, 88162568, 30381915, 94839914, 39424344, 130811412, 1503931, 94804316, 123464423, 24194047, 41020952, 17797823, 87302759, 23038587, 86750195, 22915798 >>,
       << 98646712, 114217135, 126848695, 36288827, 12624199, 92388160, 82776015, 70492567, 118052416, 106288715, 112673889, 96884273, 30807548, 108818150, 108632888, 8231695, 55270148, 90423738, 122455251, 32968377, 24807126, 98451340, 31499354, 58234321, 41966025, 41411691, 121035858, 1934886, 12635867, 119663169, 73051775, 13405403, 87082275, 106153159, 41608017, 38948545, 36031484, 22574870, 39799701, 102110060, 130462853, 74188433, 117120423, 114488610, 36339605, 20844193, 89845623, 132237983, 89678006, 4136232 >>,
       << 21118074, 93029965, 37515276, 32836464, 108516353, 112311252, 101191806, 49372757, 982858, 93644602, 80654516, 41292129, 58950875, 55210830, 47115426, 94160679, 120050454, 125893532, 12195202, 15839749, 89698735, 98762587, 69089091, 57149463, 88230709, 8741015, 131516559, 45145882, 55905499, 132834398, 36770884, 1082382, 82233671, 107737456, 77303792, 38253012, 13831157, 41463789, 66436808, 47184646, 25824230, 83348828, 72363716, 83220526, 94849155, 8717928, 120427510, 25839651, 62741164, 5225284 >>,
       << 42938800, 41747896, 111510507, 85401061, 18016734, 40276314, 112577898, 43592298, 132891426, 12527708, 91855552, 85018569, 83696724, 7489690, 68259226, 122043971, 110682899, 24036169, 51746772, 115437703, 10213068, 89576541, 121039947, 110301354, 104676611, 9475654, 3645536, 86302571, 26794422, 42722315, 51449796, 42885916, 82745618, 35858655, 24325432, 100575911, 77565391, 79675979, 132885828, 23545600, 4728845, 85117301, 128420895, 23420929, 32462158, 64462748, 51302183, 95445580, 51218112, 58087047 >>,
       << 78260480, 89115882, 125700464, 134080551, 56831347, 80523708, 23255779, 104068095, 22532600, 76483623, 46570076, 31370393, 31099966, 72109744, 51502478, 12518558, 76327090, 33560920, 12464150, 112040172, 8781194, 83901180, 110423627, 72714596, 105016721, 101266565, 25752970, 81715751, 90839537, 2180043, 112175774, 83364164, 106441307, 30936556, 105151757, 106567728, 41009388, 17021030, 37640380, 87738800, 84681467, 115247629, 19971099, 39467543, 295360, 50807678, 56994196, 90375178, 23847090, 68771458 >>,
       << 99949236, 25208863, 36260114, 55044235, 25677925, 27054502, 108173237, 40252966, 90536007, 69443222, 72316237, 81135680, 30879762, 127811781, 31961265, 34541505, 28009488, 63436643, 49784981, 13761023, 126039955, 128455254, 98995994, 70707260, 51170366, 58543087, 121135508, 82180715, 34145233, 98201036, 5003971, 68146413, 58338774, 104159143, 108497980, 48582968, 108976122, 38650694, 23585795, 38155254, 33432208, 97637812, 75433047, 23702186, 51501896, 126671553, 83244809, 126797432, 17924882, 74421726 >>,
       << 44260904, 46107200, 2794890, 60366677, 36103034, 27407585, 45637492, 110218590, 111785093, 2913715, 77526539, 115691497, 46626718, 21889463, 130738967, 101887130, 114429304, 75087085, 85040563, 121254994, 125620650, 70204163, 108308425, 83411355, 132700557, 50092419, 81708881, 36504456, 117995896, 132272042, 123636438, 64371388, 113216411, 84765913, 116182732, 1108200, 33385139, 76412598, 57300232, 108269226, 121374051, 81208321, 117255896, 128871277, 56633094, 38034516, 43856872, 28122544, 43314199, 80656763 >>,
       << 12901830, 112676703, 115680526, 63125832, 54339067, 44041845, 6013165, 34710619, 61459213, 16723636, 107718821, 73745651, 70200392, 27032679, 608036, 5051362, 102276877, 79445871, 107128524, 79014370, 45663952, 36771459, 18303840, 73884008, 68271020, 127445095, 61113260, 28489931, 125434716, 36879231, 132332653, 38225468, 99263658, 97942144, 81942689, 86577978, 53950849, 89518125, 50639183, 69302626, 129234422, 58201944, 57673288, 60394471, 79059993, 72329115, 82046026, 77764508, 34656910, 61335508 >>,
       << 2201320, 54839082, 94059276, 14293076, 61414821, 93990000, 114535038, 114774514, 86231907, 2986213, 117062364, 115868873, 116304609, 114771597, 58147182, 78415642, 6910905, 11408980, 113585689, 35012338, 83379472, 59098042, 121894528, 11010615, 10843930, 3532190, 129301863, 101833343, 28842423, 107162226, 70276331, 34991898, 106853112, 127694451, 127653313, 96076302, 125136847, 126879976, 60133687, 13774635, 45194108, 52638715, 64482820, 111302638, 48116597, 56214589, 58000193, 97696497, 43727112, 6914 >>,
       << 87593071, 45460417, 10277532, 72856005, 97706657, 67804539, 56690547, 126658960, 2684730, 92103557, 12874422, 51587851, 65953891, 88877150, 39262869, 34998540, 75561241, 119026753, 97066865, 91682869, 24253410, 27435471, 38129457, 93186596, 27848456, 130145123, 129594057, 49383717, 81966264, 119130561, 85853878, 131987395, 58376300, 77240111, 69407062, 43978615, 2502696, 118506658, 131050847, 133169925, 124332818, 37344585, 43514076, 101934173, 122048353, 2233227, 86666133, 44979545, 104896501, 54889783 >>,
       << 54831765, 115007430, 94946895, 77391840, 106164586, 127290976, 30779634, 65024805, 46057576, 41723818, 6115113, 18215281, 110706004, 95554038, 100581416, 120957133, 35472873, 120962526, 23883732, 106757423, 75294813, 58335522, 9677231, 63300954, 111593823, 94356124, 72082891, 78896855, 22524235, 120730009, 44443931, 107580514, 59821191, 16692878, 40354266, 128710236, 4468446, 113344785, 17455427, 44350692, 7475528, 131578690, 115723107, 91602107, 115328609, 32308550, 72332254, 43449784, 116943005, 94720854 >>,
       << 134082430, 65834110, 57422715, 99934249, 23143117, 101410874, 50518488, 117379359, 111524390, 40380007, 69009687, 133240134, 105976374, 9575742, 84447782, 55200007, 102084815, 101451981, 33469627, 69431072, 86815386, 38590563, 76902763, 32815403, 101836483, 100482777, 54653981, 115353615, 75066320, 116524125, 6948541, 90083340, 51722494, 26288199, 43362563, 68739465, 47082768, 29626511, 2542799, 96648899, 112729266, 11352153, 2917311, 103318188, 10665796, 114105722, 102559416, 18965255, 58958485, 73721970 >>,
       << 77592020, 50650080, 80675884, 44756717, 11282229, 129766802, 108248276, 81925144, 87043169, 27970469, 205861, 101883606, 39452747, 86261787, 123568984, 67607494, 115380858, 49509360, 19787684, 121675246, 116531426, 121292856, 95041323, 65729850, 61695387, 47013536, 70354364, 50472286, 101869468, 63733039, 6546154, 119659610, 29022555, 51981352, 43962735, 55694169, 19687189, 6926372, 126883330, 26078910, 100308682, 56701893, 28941630, 34054988, 40808173, 91268434, 37749932, 28358171, 84405237, 79877458 >>,
       << 34650316, 54085226, 68272536, 104808344, 80228565, 50669871, 100288617, 99153283, 96466418, 32830348, 31222956, 14086365, 72104040, 9655529, 90498347, 129252205, 20205031, 26330332, 29843354, 49765757, 59021497, 91218063, 56596788, 11915483, 63992031, 95840103, 113039805, 99694862, 121088061, 6417911, 60195738, 118486783, 29506538, 112501094, 16647276, 118904667, 59928296, 40460356, 37572968, 116284490, 47959758, 61872236, 61948301, 118935958, 57446213, 23227630, 90624084, 55495867, 119479573, 18240842 >>,
       << 52093145, 32883744, 126594289, 52668823, 59659268, 72233668, 42031854, 93498808, 5521737, 68375912, 82443669, 121027996, 122069649, 74392590, 122786419, 118980615, 81262595, 65549917, 109215290, 66558294, 35563149, 105167191, 66544513, 129679622, 103801742, 115251443, 50242229, 82312475, 36589765, 91823493, 38500935, 87250010, 32135348, 126292037, 38286911, 112650389, 67435738, 95678736, 44866609, 18567321, 78843944, 47532080, 113875910, 25536025, 59877900, 100650488, 61699325, 105657737, 34057736, 117867003 >>,
       << 110840656, 116663782, 3690499, 129158131, 101097815, 105227794, 32215762, 63914240, 52250075, 62509349, 56356892, 74836134, 63796343, 37767869, 3358421, 35586276, 117053874, 20172609, 3023574, 128620524, 116309913, 64426988, 56539275, 62712681, 47605885, 10806821, 41355888, 80097491, 59747311, 47074488, 26806132, 40003269, 11846980, 10204755, 42559106, 101251318, 63241319, 102882013, 27876639, 87475155, 104281232, 27912042, 7971858, 83482121, 78968417, 7809974, 105866428, 4337677, 86348938, 96318289 >>,
       << 6242640, 76635017, 114233487, 37280747, 99116414, 4495909, 106878751, 54900578, 50009613, 53476100, 47924901, 97438382, 67946468, 20134690, 32503259, 99974114, 38990885, 96952375, 35351816, 46091075, 32771427, 70509101, 131961655, 128659790, 107439976, 44765932, 87871558, 88211256, 56729328, 49050807, 33017803, 45896619, 128021043, 24198568, 122646562, 26881771, 116087488, 90843120, 17466246, 126364191, 55246410, 57691785, 132050559, 4280427, 84731359, 91742957, 122865808, 122869704, 90074440, 102366741 >>,
       << 1809088, 115655542, 128577618, 4941784, 34927264, 62601168, 3879315, 114818863, 134155954, 76587303, 98900012, 10560435, 9413975, 8043668, 98732209, 32952444, 109378422, 41294087, 78505869, 132821860, 101128269, 89345366, 48542943, 110658736, 56561395, 10441687, 10558159, 80531581, 92534382, 102728001, 80242618, 67359074, 76194951, 79399096, 98730329, 53566592, 111876928, 42192439, 133361209, 10784367, 11645218, 73500120, 13663675, 91650210, 119015082, 42719028, 67428627, 28861700, 100512403, 129072036 >>,
       << 60105652, 105703899, 124708270, 37135605, 53927746, 57228456, 10267761, 41870422, 98001253, 41126010, 63133849, 60220447, 57049274, 123925485, 12483511, 68548578, 86280014, 102557751, 86960978, 54809510, 68601597, 65345348, 89782208, 8043, 37670102, 96710208, 61949302, 98392017, 78322805, 55245190, 53673036, 90088909, 87362118, 115225839, 104954694, 111923337, 51459064, 73492271, 118841495, 19765067, 95048940, 82424462, 2123688, 99371327, 50044951, 95565008, 17873403, 49507565, 54239540, 46049222 >>,
       << 131258329, 80584175, 78673989, 50321883, 2251618, 70699733, 86154878, 83057174, 9099882, 37074477, 96412495, 22021272, 94138118, 31228500, 92832420, 31079103, 484377, 97978270, 24223703, 77074737, 94539167, 24955882, 66622941, 56749009, 121905686, 38355754, 114805201, 2328554, 42351832, 37344670, 112498065, 64582711, 91322964, 32476548, 83636667, 71810500, 56684311, 23452558, 122758993, 20879722, 9004041, 34007664, 7354480, 47587342, 9023822, 29028805, 117530518, 11843295, 71394989, 52150268 >>,
       << 50478809, 4326041, 41382948, 65035667, 41275753, 60541218, 116449295, 32700268, 28617102, 74056415, 79293253, 112475596, 12118341, 34001436, 60905716, 98412778, 99408297, 67154863, 45578219, 22502892, 35050980, 61096872, 40162276, 116063975, 40593556, 111080445, 17207018, 357389, 25229926, 43931390, 81296702, 35226197, 37852887, 13839405, 2239692, 124825578, 120418994, 100167294, 117274258, 90220846, 22345030, 122986913, 96906143, 30323831, 105104701, 67719328, 64538706, 86589185, 30287615, 112515084 >>,
       << 47962541, 133159044, 11017493, 72111233, 122913465, 100357123, 91530933, 93909639, 101305150, 115346918, 54530952, 55515109, 41620084, 124241481, 116375370, 116034922, 66692866, 64299148, 40593660, 12819408, 27351825, 12102757, 130107245, 27320792, 123302236, 49186621, 10248176, 67844716, 90505162, 25219309, 1162685, 18972245, 47693128, 69003579, 50182404, 26252367, 35908039, 120890174, 126792318, 130257616, 56157785, 103675951, 42718779, 71740949, 109349164, 10540762, 46877123, 28190740, 127623109, 83483529 >>,
       << 125582829, 70763371, 104128824, 72204352, 48946508, 85590035, 22520061, 93115758, 15962162, 65627013, 73870396, 80841675, 44005745, 46134283, 117685372, 83566347, 108277623, 83198445, 7769306, 108561460, 77488773, 70130705, 40746966, 94741853, 118942771, 90921322, 106522321, 130656382, 10197356, 123033865, 22925613, 130342271, 133943804, 74356696, 131426820, 50346159, 44331052, 48453396, 108401091, 69636081, 112676213, 119064403, 130594021, 116145427, 14844760, 50571870, 61836193, 46326837, 101723400, 83326883 >>,
       << 23865861, 28874552, 72214095, 27586308, 126495382, 114597053, 13032659, 78865889, 29573433, 41748287, 71470064, 102301370, 128123425, 76764444, 12307746, 73515297, 119658943, 96163885, 102734191, 5509949, 98292956, 7447360, 133244989, 26317143, 128918454, 71520534, 8728266, 109940994, 34655142, 116252500, 51697915, 25377699, 34777922, 17063807, 94432563, 81429935, 131805781, 109579412, 23226296, 41843281, 122772700, 21070330, 13797091, 92494454, 81640102, 117615204, 49657261, 77072286, 62184453, 99933528 >>,
       << 112901818, 32502527, 131274992, 102425433, 113681298, 6982290, 112798791, 78870241, 98717880, 123982411, 13637172, 23271861, 8497890, 69123528, 42197356, 20768534, 63375181, 121413720, 25929785, 39620002, 12170582, 132895178, 11697884, 39691260, 97137272, 53898807, 11827410, 26392820, 33481764, 11253815, 44605939, 118467791, 86048773, 47829623, 48646304, 26276771, 113947480, 7244245, 127811503, 8425088, 43047353, 29991893, 5233343, 25475774, 7903552, 108510651, 41246696, 39840192, 1377441, 60368483 >>,
       << 59183451, 71514416, 11804569, 90156549, 95591213, 13396039, 119950831, 6368984, 82763872, 134193087, 119185258, 99375080, 54662464, 48393887, 82397790, 73689502, 40678597, 89072761, 103086448, 41991638, 42918356, 61286298, 54596715, 99512021, 112663730, 95015470, 58003387, 31860721, 100571003, 107403721, 40993688, 43692745, 132600850, 118963242, 40745258, 16063090, 105103950, 74942046, 99587201, 130694977, 24664126, 80213329, 79324314, 13190988, 18972893, 54574223, 125998175, 82392854, 115116799, 121445503 >>,
       << 80255641, 35822802, 45800887, 20495168, 7392228, 55965577, 41176123, 91863434, 11010428, 125484933, 82963151, 123126109, 98481260, 107869636, 13821579, 3074636, 56284339, 130419227, 14044750, 123174030, 93251071, 100423455, 51330934, 131828968, 85995513, 51074594, 92613147, 82659260, 12520292, 2317854, 7901857, 120147890, 101167336, 119210611, 112770031, 114061237, 94263802, 97537388, 70657083, 85422636, 17772406, 21479842, 89141214, 33562313, 17984855, 107382478, 99328288, 16575607, 54290781, 71879932 >>,
       << 18977763, 56022914, 110625853, 67572962, 124158810, 16904163, 20393707, 92209469, 11236530, 84935617, 108790476, 67004355, 47759988, 124536692, 85635822, 53970081, 22884017, 87292994, 104980266, 51140825, 112160134, 82984566, 76300194, 104568597, 51198497, 128124708, 19597211, 4090552, 71011665, 25978209, 84748723, 36371670, 66648409, 76898062, 107324649, 125144436, 95082042, 11589740, 100093584, 521062, 1492827, 46340372, 76330033, 30923033, 18676706, 88858674, 107327604, 85113478, 85007120, 123813673 >>,
       << 125759669, 127128859, 85033765, 47203710, 66072249, 17382034, 102013978, 17806561, 73989967, 84194414, 61185173, 6597648, 94416694, 27009538, 21193066, 19564550, 4094384, 6258097, 128870910, 86622570, 88719014, 62183419, 122523202, 113452257, 35880608, 75008484, 45580382, 82635787, 66215748, 98652186, 17289643, 34103198, 108053521, 25685863, 74692313, 62153630, 126067438, 16387532, 19427754, 81880896, 46928981, 11861130, 39626654, 44919602, 25000242, 120925820, 96263424, 108904539, 5998983, 44450585 >>,
       << 90850827, 133660643, 68681848, 118726856, 124219237, 107755595, 86237487, 3096138, 94824427, 124788620, 19786357, 122611586, 84792346, 127201517, 69257480, 53611078, 2138839, 108181317, 51016607, 5894550, 38659554, 74144299, 3849353, 23287112, 106205805, 125534218, 111636069, 24418079, 35184829, 1717144, 56171331, 105116057, 48132110, 113709041, 40323824, 118971786, 64036095, 35365030, 60553023, 128126839, 107997439, 53571581, 92957862, 131497167, 81468439, 129659556, 45777021, 5591248, 96370624, 77788812 >>,
       << 3126438, 34517531, 116853264, 11197996, 85169781, 67468091, 130466658, 97801379, 78440014, 67787932, 44356545, 58472166, 52632484, 129243186, 92316389, 34840947, 27412322, 4734820, 12585375, 120873808, 52201134, 44188355, 84155184, 112876791, 47569331, 57903564, 108080052, 18057280, 29602737, 69098417, 75009456, 66053505, 71248558, 68271070, 124385751, 68511494, 59431275, 97711209, 118121461, 51125809, 46653374, 57118764, 93584244, 131873766, 122315648, 131083210, 82321426, 83676743, 111345406, 31897513 >>,
       << 9941358, 27649333, 52258051, 88449737, 128712330, 7041976, 55927247, 86859583, 17176774, 118789276, 124484030, 18529036, 113191969, 79400280, 3091047, 118745226, 11835886, 133182931, 13111315, 107288870, 97565013, 116519262, 25975112, 74626744, 51296749, 1224268, 123762826, 37506097, 64692193, 111495721, 79070577, 37190954, 89309703, 101097657, 60024384, 121138316, 118407831, 10689300, 101155249, 77499715, 82597413, 2070146, 28765416, 68308735, 2238258, 27825281, 44194002, 16274328, 101995807, 96775140 >>,
       << 98016023, 34406841, 115002834, 133516848, 69934871, 78767475, 107057283, 132919631, 102716375, 43305637, 97959165, 33003049, 75177965, 22614135, 127605950, 96402972, 76442071, 38902776, 41344390, 9853976, 79070526, 95468789, 101131126, 16379293, 34845000, 61686661, 108565912, 75612600, 98123493, 6412872, 128450818, 48544843, 31320839, 41288793, 59122877, 17199439, 75268530, 32127494, 78990348, 48104578, 118474655, 12478992, 128488344, 98705939, 54873493, 63650357, 28863906, 85846292, 7555847, 110068397 >>,
       << 75752409, 44477224, 97806183, 29670530, 16924127, 88249227, 97999573, 52860739, 66226301, 1050459, 108424891, 74704673, 34339270, 116035449, 68522565, 101889937, 69399674, 54225586, 109346175, 84126261, 70963668, 100423672, 103377543, 55548895, 112033302, 107330553, 44523868, 51002447, 92444682, 88695038, 20031958, 79591271, 119577111, 22387384, 49333062, 103924567, 89057865, 126065486, 88909550, 71779122, 89060133, 24906958, 117123436, 118904296, 21320523, 70536400, 121632563, 22112320, 96221245, 72010674 >>,
       << 120939588, 216145, 102023801, 102534523, 14869050, 70725002, 29304265, 20704750, 32946337, 50132551, 28141240, 5601498, 58624906, 120564801, 68444765, 69020020, 46016286, 57323574, 71830352, 97642468, 40000379, 91470502, 126449437, 111642727, 56694280, 65090023, 121688223, 54962725, 85783731, 66465834, 67428547, 2479283, 81981777, 127384712, 53582893, 37385258, 43479533, 107603716, 74043097, 29368299, 64374848, 130669818, 36077835, 98524674, 37678462, 77112395, 43681667, 111528341, 77153915, 63745889 >>,
       << 44925754, 19670856, 10650098, 31011141, 47971323, 85386415, 26932949, 10893237, 125846337, 64099153, 43268737, 120423247, 46253163, 91761851, 105668490, 95176377, 44258702, 80490408, 84356947, 21292396, 123985743, 67504319, 93955123, 83571001, 65571361, 36847864, 72135189, 95098297, 61385014, 129569495, 37102357, 11675008, 129784245, 92050709, 8639596, 94724710, 85377710, 39075155, 130289507, 70674136, 51777402, 91792070, 119094420, 131903843, 124627154, 21003771, 57517981, 59560834, 43383268, 102087741 >>,
       << 16146437, 112612762, 100420616, 87498378, 15813035, 106019782, 82825222, 83056431, 66171993, 56962109, 34517026, 44915315, 30067421, 35999989, 82292720, 54527181, 47726845, 105646849, 42720637, 9655821, 103012527, 48075507, 104508597, 86077332, 58496151, 41698831, 119013622, 14977672, 82057677, 54130352, 59136292, 71053310, 80376522, 57279821, 31887829, 125542605, 96989180, 1065188, 122609901, 108574619, 6686777, 75930260, 128233410, 27721987, 47105377, 98837662, 67688256, 109813790, 24653846, 8190711 >>,
       << 112081230, 14798481, 53150566, 105264733, 25725680, 112356829, 5051841, 11524133, 101817693, 98839028, 43926914, 77256690, 63807105, 87537832, 85805582, 20835124, 23159530, 123744015, 37685903, 19405670, 16945350, 70373780, 37683552, 101914815, 72672212, 106284374, 100006642, 28852315, 40977967, 103655462, 88961994, 80557801, 22467106, 64370467, 51213512, 55057429, 74262295, 6552492, 76198842, 84346382, 69779798, 102850002, 34096640, 58504692, 87900106, 93168288, 6618907, 128166873, 11114927, 107973381 >>,
       << 85062950, 117339136, 67934407, 130302368, 4507845, 36855423, 1088057, 106519736, 27377903, 26378490, 122136701, 40266942, 74296059, 672170, 9662262, 112542282, 114666533, 44780924, 116832103, 29416977, 58872401, 100361442, 32482142, 50295134, 106644107, 118265183, 70730536, 53570579, 53719991, 132441296, 100243304, 65225841, 14002515, 124627050, 46428671, 43794708, 35059642, 36583139, 55945823, 118212423, 2116951, 46311869, 32889839, 78620792, 20701884, 119788816, 52740982, 5489895, 82551184, 119525039 >>,
       << 58709308, 65035969, 114862466, 35879550, 125009718, 100359774, 110688743, 132951131, 54076401, 84958755, 94021551, 18493340, 66541473, 18258043, 6452895, 84439916, 44662015, 100580993, 27677056, 53027777, 124175398, 93518072, 114429474, 106476042, 40119360, 83758691, 76958510, 8451222, 14372776, 80436791, 92727531, 20556385, 95374761, 71231443, 110194318, 131730456, 46845230, 54863915, 59652731, 99171582, 84092422, 124216729, 91643914, 20610994, 107779461, 67284894, 48913068, 99034297, 5714151, 22912642 >>,
       << 131683050, 11474449, 118041663, 118278163, 127406389, 47971671, 130171060, 43081518, 96993093, 118925883, 114057083, 105316325, 87108374, 112532291, 88095052, 29193424, 74770388, 33004158, 115547420, 2632034, 90406057, 66723313, 60933337, 45658737, 117407207, 42953108, 73688558, 18624017, 11991120, 122699946, 21302349, 51845268, 24480374, 55939934, 34872666, 29198277, 126485852, 81515784, 49765317, 53373687, 64114803, 86080235, 68719275, 35835453, 38731392, 100446976, 53072911, 339260, 59835743, 75320125 >>,
       << 81807088, 104255167, 111695393, 3003234, 111560368, 64491302, 111418968, 46089546, 11030828, 89429774, 104861170, 119951807, 75507745, 93545374, 76439410, 125917490, 13429142, 81490276, 67762831, 8680409, 61214669, 64864003, 50283906, 49704219, 9196824, 20559033, 76851275, 90944077, 92340775, 37223512, 40122421, 12881860, 106497129, 41180542, 81069563, 104790832, 22174293, 45506952, 27650014, 90219053, 13463414, 57639002, 123165282, 36989417, 83203248, 72678586, 23869685, 69795026, 101916280, 90323679 >>,
       << 101999293, 32821225, 69437440, 104773516, 86448670, 45143341, 88981466, 76553029, 63870020, 36522429, 59052417, 59719008, 58300566, 47043979, 50900106, 104707539, 42847571, 78161548, 120512816, 4925845, 64613595, 2515515, 48539136, 43774258, 40666948, 97345996, 82242860, 35342746, 87059278, 106540893, 95074896, 28218853, 85717754, 112118024, 41059566, 29884262, 132068970, 102788640, 57969895, 72080753, 63183078, 88213623, 66119571, 13669886, 45135491, 115403544, 55100031, 107468549, 75655486, 23450700 >>,
       << 127607429, 18906449, 97431868, 358749, 111409898, 78149963, 35652454, 103036499, 82207221, 115238771, 120473136, 7216642, 65347509, 54346815, 127051704, 127434574, 93138190, 32345261, 40058376, 116115640, 15106648, 46409030, 28254047, 48310598, 79690750, 62251909, 62628838, 16775788, 133427098, 6838823, 89119251, 6407377, 14735742, 16518086, 127472835, 44697978, 86362263, 33857916, 62054715, 61049491, 115267292, 30697766, 102877855, 38619326, 82485055, 128975352, 35276531, 32264859, 89014851, 9631001 >>,
       << 109876966, 120048503, 88484809, 35220737, 93178562, 72015813, 64928712, 17916976, 23212792, 47298006, 126511520, 49027375, 62853949, 129107289, 67173492, 45200030, 53860348, 34166783, 13940174, 29964212, 45984174, 36287573, 86994265, 129708525, 98143875, 85077934, 65471138, 41476044, 12781645, 52815737, 71667869, 44130655, 117512481, 87067214, 50209853, 62759270, 28722147, 83157881, 89280469, 42154274, 20353937, 31915266, 115521657, 19403500, 71995285, 49220130, 129753403, 50047011, 46911526, 74180486 >>,
       << 2369338, 111936222, 104051889, 90483024, 100646746, 78124517, 105462432, 129918455, 112296666, 46172299, 65227723, 100238813, 80235982, 40454816, 111785163, 65471290, 48603644, 124549494, 67321614, 13115897, 87727540, 54866081, 54016186, 5947363, 20855280, 105685029, 120517618, 122131226, 71256600, 103805658, 122015099, 35231001, 84298106, 85936261, 15778339, 104246191, 25959953, 55102366, 22500833, 31988938, 28642727, 99544393, 98792574, 87939599, 105642597, 129161761, 85642136, 40527270, 59597985, 252457 >>,
       << 40343569, 2448519, 62413125, 13658263, 33772223, 53747109, 108295422, 79578096, 133827328, 130970115, 59671635, 85040154, 96142478, 12887049, 34156455, 97916303, 131408890, 66129080, 89850845, 79170637, 65651230, 96685654, 108630123, 108264982, 110127668, 93084609, 32958088, 130754029, 39036715, 16708168, 74621165, 46882181, 95783734, 42861321, 76759874, 45640153, 133505568, 5602263, 69551833, 95679510, 29091974, 67016752, 126007640, 38037456, 50044865, 95815977, 102889058, 54012161, 4976741, 16463308 >>,
       << 61938728, 3408900, 25630687, 81669221, 110682063, 52117276, 13525516, 2589729, 10446579, 61755903, 46698992, 82647878, 90973381, 4192932, 88456661, 113599716, 5276591, 101734151, 14074092, 58831581, 100623657, 4733307, 126180396, 51434597, 61741754, 76877042, 106109532, 86732269, 36199906, 77124734, 4488719, 65616524, 72879693, 58045967, 94050268, 80179314, 23903905, 126722908, 71001456, 41956607, 42119677, 91255179, 13135458, 53401001, 121314759, 94440374, 20950822, 14742738, 100564124, 107122729 >>,
       << 49011649, 77618227, 108773038, 104769485, 31722456, 89198749, 73776431, 103434950, 106228117, 123929475, 78567993, 56937913, 59749655, 53929252, 90846063, 33552643, 47370883, 133978064, 26567299, 106110752, 57503744, 65338134, 134198559, 32232757, 49394059, 118003081, 90436808, 106781427, 47787663, 94386062, 70757997, 79771817, 54696305, 6103610, 65639148, 7756834, 60995860, 17191563, 17829404, 71669376, 72253547, 28776112, 36250950, 104567744, 11458804, 129793731, 28673093, 30935029, 107487657, 46359602 >>,
       << 110095156, 14290225, 101103740, 26018096, 82153565, 979970, 9987229, 36521309, 25442517, 6325459, 81013957, 62826718, 122242227, 115060878, 41592392, 22141696, 66102083, 85262200, 41574746, 130940221, 82474982, 30428633, 58010682, 54383490, 114228122, 90244254, 123867404, 30201129, 42097153, 64395527, 95598922, 103601444, 97600443, 76205634, 55572363, 59274499, 103163170, 110083186, 118707384, 8396069, 127599995, 93214760, 35974394, 69814700, 129287308, 2999320, 26308984, 94434744, 103031422, 114642632 >>,
       << 130646483, 119628866, 89598463, 1476916, 89146488, 6918868, 122698220, 61240454, 90401600, 96759790, 30645572, 107990606, 48882805, 103908600, 84408230, 58646826, 113210090, 48956912, 75258542, 109220907, 20584656, 52322352, 110644004, 3380929, 68943105, 23368149, 130769597, 114058329, 45997104, 24357127, 127316727, 133098701, 89843797, 55711169, 31847797, 120383471, 97906431, 63199846, 108686579, 79362602, 126966717, 35489387, 94964678, 104475583, 107363351, 9168351, 18990527, 118964683, 67992001, 115961881 >>,
       << 102486955, 70207946, 52390577, 57601447, 126027001, 78285706, 13916530, 11872987, 108749628, 16945764, 90223726, 17236582, 128434832, 26323326, 106939839, 107678499, 22313294, 10141335, 35413896, 84103913, 88271620, 22332657, 43254525, 116331496, 21349570, 108059231, 50682062, 11087507, 123919591, 14523087, 78595333, 65663590, 105994169, 86155859, 73357266, 76183158, 108183347, 131325329, 19696011, 113132375, 44714192, 108717966, 83040008, 116118044, 41088605, 52923987, 131096589, 101767004, 101841605, 42744749 >>,
       << 60599967, 129353815, 35447698, 84446701, 84438452, 36621090, 50672881, 122770775, 49969465, 93961331, 28825960, 24275084, 50302748, 92132524, 109920568, 42550453, 37602980, 38441326, 124088897, 10255700, 14680122, 69896822, 13093709, 107010801, 103678550, 92279057, 71447247, 89353132, 114085296, 102611379, 121478476, 93453523, 45984183, 11452539, 28699665, 51277416, 123663703, 60417500, 25176593, 68613363, 129704136, 2454882, 92227637, 45382694, 19378957, 7776399, 27659258, 74170981, 110800690, 86982204 >>,
       << 86364845, 72460795, 13457647, 92612477, 79606147, 29043074, 59667720, 112407527, 127670543, 96942383, 57557861, 68852492, 40387219, 104733176, 13383788, 72082682, 104501161, 120501876, 37508261, 115689687, 66659916, 126043818, 10773816, 34919531, 51271419, 90027977, 18062900, 22254977, 3744847, 126985891, 9999329, 35035588, 88835472, 70092195, 32726323, 26618901, 32606058, 43438653, 35831162, 130832430, 8008103, 120715450, 13078971, 14937373, 24774457, 59447164, 22680643, 72706100, 27790964, 122328490 >>,
       << 52233161, 1532487, 26252326, 217356, 68203840, 64650440, 117903524, 104382567, 53001598, 123498330, 39068079, 62909570, 121861327, 64814358, 6202184, 98289597, 76908094, 1418292, 133061385, 56611409, 88771638, 89256417, 64849775, 58450558, 14550191, 130368928, 72942380, 31841589, 104083111, 62415552, 50629134, 19378518, 99383208, 81027259, 50086907, 346771, 64851704, 56514753, 87806001, 64797678, 92481769, 112519775, 8815479, 85430740, 55839404, 24902995, 128642475, 12590849, 66972989, 19767823 >>,
       << 5609850, 37841202, 73229212, 70270040, 113488533, 69275881, 52982698, 75284624, 6620388, 88150269, 40239060, 13821477, 67243601, 52335652, 109242816, 77081624, 29846042, 6001694, 30358467, 118923377, 111012848, 90098518, 21721163, 51958720, 113407354, 39912731, 87824206, 44091392, 106816544, 53768384, 34454040, 82511459, 57633055, 62715673, 40065416, 14654999, 79030395, 82258607, 11182289, 53858626, 4966723, 43339075, 96358133, 121629092, 91897040, 101029912, 30962820, 81768943, 91500355, 2742492 >>,
       << 51929332, 105310911, 122369353, 33577603, 106848676, 107052552, 76387049, 4454734, 129554482, 75773927, 96545245, 95248299, 100755749, 65302659, 86593644, 2075786, 30798681, 40046248, 17540698, 45136492, 109300304, 88852629, 133955871, 15366945, 94645986, 129027271, 80018334, 60482342, 91627362, 7124317, 16560162, 74129978, 9281333, 98971204, 115880413, 50165713, 74981169, 77023282, 13400438, 25209875, 53298670, 133341296, 73125734, 19085963, 77789531, 52514007, 62350425, 128108764, 1446148, 62058457 >>,
       << 37214819, 23508440, 15819665, 128946396, 44575565, 123785449, 33098475, 8990534, 80310669, 33415948, 85579412, 120974227, 53415051, 97794457, 18595489, 104818522, 117390744, 45758595, 127855882, 23068309, 53892324, 106822589, 462685, 18870433, 23385052, 15177555, 56833639, 76690234, 98646072, 124718098, 101566749, 3366707, 73873832, 95004542, 68456955, 61135583, 49236216, 106390001, 37090318, 69041472, 1404526, 19000472, 116076789, 113151229, 124561630, 80998272, 31125764, 26707552, 103710388, 133366075 >>,
       << 49399803, 73180388, 30976164, 101469318, 67576689, 111072697, 40002590, 25786464, 91595943, 112634992, 83424048, 85735378, 11097510, 571999, 54794874, 48598596, 60214706, 32120058, 118834967, 107835512, 43791408, 114257275, 11336167, 64426922, 41808607, 45375246, 123248955, 34053876, 50651325, 77028916, 29215462, 103547410, 92646159, 94760190, 46326746, 16390366, 3489432, 117585710, 21867339, 98570122, 10937062, 40836843, 6319628, 121781941, 108422043, 102697671, 11868488, 20205381, 122256530, 72890938 >>,
       << 32822070, 25420615, 11647488, 76686210, 44348094, 49344253, 68884191, 127709841, 85199533, 78236411, 94829348, 64718584, 76002314, 77603163, 1601813, 125054936, 29601323, 45483001, 108451431, 101786281, 115739015, 80919608, 60907440, 13417244, 66140069, 124681166, 66161853, 10931484, 115027317, 65220748, 93852936, 3600484, 25802765, 4383327, 46358761, 55137382, 67151414, 60653158, 121809927, 7648253, 119890215, 76924129, 40730353, 9893707, 17390520, 34044219, 122148349, 125206250, 93770819, 51269406 >>,
       << 645951, 44286428, 12512134, 129275341, 52634879, 34006749, 72594426, 108602458, 31119594, 102108306, 85173551, 84717794, 74528503, 79268540, 43051701, 28029211, 32087136, 60158806, 51698636, 74976112, 34744624, 15475748, 101475872, 74806586, 60873849, 102537515, 111766905, 54185284, 61405294, 62382819, 116188180, 89554250, 58462986, 115119706, 8139099, 1260296, 52046108, 37556176, 30123918, 41629508, 43566725, 126398515, 128066367, 88054220, 113117572, 95885985, 124986205, 78802221, 107245077, 96096872 >>,
       << 61075309, 90774445, 85231261, 89697229, 113016039, 31296598, 113113137, 10741296, 85772208, 102348868, 63407021, 102046308, 31720243, 5987077, 30554211, 30306132, 23762856, 35459875, 77865625, 106199121, 56398137, 100450809, 111228540, 96980674, 97347368, 60557530, 44738928, 122461447, 101324997, 132020971, 67091759, 120277469, 131536615, 35437132, 133485551, 116538717, 45672395, 15610916, 104620251, 43257, 40559882, 72859442, 37702585, 120380556, 71582244, 115264205, 5796754, 78738651, 40731130, 94074482 >>,
       << 117205078, 131965416, 58893279, 97356411, 107641653, 29154312, 113239134, 15712553, 72665652, 12445961, 132986571, 46229746, 51944504, 2621771, 114950203, 45755518, 113430826, 38857385, 21769838, 64914236, 6907430, 61070966, 79772506, 104616073, 113911930, 78339686, 119588053, 126070335, 48302092, 109740232, 77808888, 96384305, 119423088, 40117129, 107742781, 64064673, 55506620, 111663126, 15752733, 14117849, 14428751, 6875301, 64977057, 127958236, 133309001, 77326905, 63438877, 52640824, 41161009, 118260962 >>,
       << 60340934, 48594512, 38913746, 90410526, 99747894, 47122944, 56146977, 45824683, 61919297, 20113607, 68684052, 75869843, 106065406, 61192114, 20360921, 22336433, 51996102, 91687281, 77391983, 28197576, 39734257, 68036298, 45345909, 36019090, 126604002, 132738727, 91308352, 3319085, 101765461, 27275395, 77842257, 1398081, 81719144, 68111555, 34604165, 128397813, 91976878, 51033013, 70923966, 115195249, 46825183, 99541637, 55950318, 1531126, 113125543, 58233482, 50862626, 97115237, 79206277, 97833164 >>,
       << 80189606, 24427131, 123771419, 116165705, 128024629, 87235411, 96345340, 115816823, 54723737, 9083766, 29324408, 69713086, 17745835, 125022203, 54998006, 104929777, 73532711, 63935665, 4532534, 83858663, 103016096, 115736233, 59439569, 118534646, 59150727, 119503525, 61232169, 58925994, 80013011, 50275978, 62865890, 5486848, 101585215, 87812550, 27530821, 76437408, 75833125, 119867183, 110785258, 54528354, 19369643, 50499221, 29906544, 66706533, 62872396, 79089080, 24660846, 118023250, 100049812, 108434111 >>,
       << 101844315, 123855876, 59597939, 9362905, 89936608, 105404478, 11462057, 7405345, 127017280, 58761171, 101910096, 31992524, 132654895, 47994970, 16535987, 17450511, 74343016, 80137906, 56296684, 23137964, 25156609, 88676159, 106431139, 4359663, 54608714, 72429146, 129766501, 120931006, 87665389, 122981916, 22538535, 38576809, 27073895, 22006802, 31115465, 25849309, 91860073, 126384881, 104195344, 32461414, 6963986, 105735857, 19206225, 28947425, 82783158, 79106133, 124698176, 30841253, 33853894, 37570627 >>,
       << 50879957, 3027638, 105696205, 53839504, 109306292, 95075692, 119399687, 3695007, 112007172, 113838629, 127766254, 127191566, 50713614, 75967070, 132192472, 130769897, 34707367, 94988295, 30409144, 91274892, 123095138, 309521, 53529606, 82137500, 46142690, 87827493, 17517392, 25599238, 45771402, 58739855, 72166957, 118105525, 52584867, 43368257, 104492260, 18867629, 80367654, 41006277, 12125761, 18326110, 67893811, 46121847, 32539759, 64745852, 96019691, 112024062, 6517633, 4430026, 105423982, 51343672 >>,
       << 115626677, 126192284, 35554422, 34065587, 71278003, 118887546, 111136036, 74582978, 45141683, 38556513, 71364647, 64273710, 104672698, 127115173, 45720290, 32938229, 14312148, 15629373, 129096861, 77666066, 84792207, 101125467, 102632094, 107314725, 69831087, 105133116, 1316102, 34349681, 22376590, 48601581, 46984688, 129263153, 41744156, 121401850, 19216298, 71055842, 107664260, 867233, 43484326, 33229797, 130785315, 59601581, 55055720, 102023274, 133326238, 40625464, 130274810, 17718376, 49011418, 44697367 >>,
       << 107470066, 4008222, 64380388, 74776832, 115378905, 130315716, 127667443, 56945454, 73906799, 71139955, 85569389, 128927571, 59945681, 73062286, 53269327, 3679313, 91098344, 24216402, 5642947, 30693565, 96919522, 79200771, 127635069, 17456543, 22653778, 16420638, 33434499, 119146926, 10087904, 123084793, 64496425, 4587918, 121059613, 120706503, 12486279, 83407203, 130035347, 96245093, 121274707, 43758806, 75186443, 53859392, 129447370, 55660855, 123816343, 28031039, 127697500, 79438978, 104110792, 77401993 >>,
       << 88829740, 17678962, 72470269, 108865339, 63347457, 75948482, 70394979, 104251771, 64966232, 21404984, 123438105, 118856239, 69711961, 66714670, 27243875, 110913015, 107049515, 93907825, 10239291, 33768952, 107567291, 21140021, 108121207, 41569267, 76152984, 48626152, 106998849, 54853689, 23311088, 77346623, 109714154, 15180063, 63604365, 122904981, 89460547, 77502343, 52653861, 41568507, 40321295, 15415612, 57325773, 1119640, 31467988, 26131938, 102037915, 24528463, 72732852, 74720067, 67989119, 889761 >>,
       << 63217541, 602514, 2601963, 43510890, 10546948, 94164986, 5546876, 23997786, 70742278, 65453720, 41905386, 45429395, 91908910, 10641856, 20141113, 126030004, 2845714, 19748739, 91416448, 21368924, 98062495, 94396442, 88058046, 100951125, 486734, 11041966, 97060690, 119111117, 65645672, 48432777, 39937484, 49200732, 127119682, 36452326, 8968863, 53465476, 36967156, 71112215, 66879246, 83149759, 18453471, 88388886, 116083350, 93439170, 9147043, 7456282, 116560545, 119191511, 36112640, 54464311 >>,
       << 55707393, 17664131, 117366175, 62608212, 42887660, 87272923, 99283732, 2403362, 104678948, 13109745, 47715975, 22966973, 54459350, 91395017, 91341329, 76658763, 60037802, 33938611, 37013885, 22925754, 110761388, 6818365, 30844816, 116463562, 96812668, 53451271, 7435952, 64596503, 71746594, 121943200, 102945285, 45856072, 39239176, 98642583, 72860484, 125091513, 126010477, 108046530, 25318739, 27066775, 1798091, 76888624, 129868447, 49991151, 68140811, 127821876, 66224539, 19026534, 121076049, 31931426 >>,
       << 92448430, 74543280, 29013495, 53404755, 71794231, 94921166, 86471668, 1404682, 57209590, 6573227, 106786438, 11801031, 116021645, 34845033, 45039843, 59785168, 131241214, 79781530, 20606335, 30751965, 18063312, 53866396, 65152850, 10130392, 35955734, 99526017, 89074906, 71340076, 45934774, 67131360, 94448319, 13384596, 83343947, 85129985, 61780876, 935138, 12838433, 48987133, 5943806, 96954441, 14342163, 75899625, 58020373, 66619163, 81779452, 131696657, 113685544, 130920164, 64879146, 89833190 >>,
       << 17748209, 3719010, 82869403, 17331075, 47029564, 9880297, 76699698, 17541695, 6203566, 15993124, 113868410, 75477483, 20768503, 73780651, 97149822, 96753601, 47356259, 16955438, 31980720, 30446581, 94627789, 20051403, 130128298, 75846712, 60393048, 112981421, 503430, 111580661, 36057928, 77222050, 86898625, 114218836, 26535401, 101193569, 63970480, 78583215, 45696552, 67849862, 21679563, 79643430, 122069841, 13843300, 46126741, 71877114, 129475347, 125883958, 84776320, 121944091, 49922823, 122740178 >>,
       << 43313930, 108790728, 16762848, 10378430, 57627228, 113053988, 28321631, 107652319, 81115559, 86694511, 59543245, 11177910, 37906094, 80737596, 22128970, 130673783, 2603456, 121337893, 105704254, 62632102, 44861853, 111466473, 125670763, 61671760, 40628233, 93414351, 115321401, 14857823, 133535770, 106262375, 129274785, 41577026, 122774364, 24631436, 40134687, 75334855, 108810672, 62779536, 110961265, 31973862, 78225298, 55303799, 21266976, 51738093, 17486697, 46416118, 80703795, 10700969, 69408210, 124242148 >>,
       << 73204174, 31908198, 93026391, 9407303, 23866225, 40316208, 87662335, 77189255, 127838314, 131094695, 129902133, 106263672, 122800327, 63059095, 97659133, 60335130, 31626318, 101968555, 124017753, 86672985, 58283144, 95063739, 105951974, 61886181, 64426718, 23065461, 118362386, 100864112, 34612467, 39871655, 25671737, 85276090, 41032588, 26515110, 84512148, 118560122, 45984047, 115417575, 40842543, 83568775, 120357832, 62067623, 69644509, 66492451, 22117862, 81013993, 130793330, 116368059, 50518445, 48573820 >>,
       << 63961851, 14806583, 45306327, 121333306, 54505900, 101023447, 95429337, 114274262, 41256541, 29903771, 120034555, 69595566, 116306236, 90778023, 86917984, 5772784, 112060774, 21030803, 82326917, 122915186, 76685884, 6291489, 102394597, 108190324, 30386144, 36267057, 124566907, 71664341, 86875656, 2518303, 85994293, 39839709, 16825676, 39327336, 63203169, 78004977, 115983443, 56205240, 128984412, 6786673, 84085288, 4103194, 96770309, 6689317, 76185224, 38531288, 1272889, 80719546, 8833609, 56230544 >>,
       << 93818422, 47558261, 64817663, 30608959, 64140270, 55727155, 17105351, 38652540, 117974850, 22520743, 54427645, 51263520, 93217275, 104583242, 130057715, 93129870, 111842207, 18578556, 16896770, 49119307, 35124652, 79711823, 20641306, 123861856, 4436293, 29638464, 55377078, 104943515, 80476326, 30994750, 7120430, 79917633, 102069180, 11345233, 96345835, 128508789, 36028074, 123876596, 111425437, 84493959, 130800867, 7871521, 122456337, 13456105, 91102955, 44572063, 19905627, 62647598, 32444023, 14593920 >>,
       << 126731429, 95394504, 15253695, 100950807, 61755566, 24742591, 110003811, 24465088, 53150482, 41706698, 122331764, 8836033, 34712014, 65946847, 128849234, 116270602, 44058152, 56519645, 76715884, 130145349, 105758135, 1711039, 117950809, 1546923, 85112080, 8828215, 70021839, 35687853, 16894484, 123266411, 81923337, 106996386, 29900248, 29182644, 131384583, 44286365, 81982796, 70798264, 132211495, 98913330, 36627666, 60179889, 107525493, 41094090, 21955860, 21194942, 77203186, 72303626, 85546549, 32528619 >>,
       << 111946189, 106560187, 129228476, 102228122, 86889969, 102270396, 43357953, 82739430, 56003192, 91857524, 55759211, 122352047, 93085304, 64598923, 105698692, 63977067, 107005132, 125391470, 11062221, 131927720, 47367005, 33446562, 115835883, 79876792, 2668125, 105984214, 22657392, 22302166, 57884912, 103233299, 122510686, 21948056, 99556517, 40425690, 62407660, 97790240, 104605596, 31712644, 54047337, 43546572, 1422409, 5731910, 96596889, 27218331, 19226627, 81217011, 75533391, 2133958, 77128131, 5091628 >>,
       << 94378014, 130377725, 85383273, 7462790, 58025539, 40347727, 113068620, 60838563, 54570141, 9066901, 116053408, 112838327, 86559859, 41844275, 40413766, 19548675, 60614081, 67543479, 65617774, 33476524, 113015982, 98991703, 94712739, 43605467, 42694510, 34870786, 88403676, 125941918, 7046093, 95884954, 123624852, 38136651, 23627166, 86073512, 33364420, 16769289, 53761226, 83113415, 66130324, 80354946, 19274773, 97189524, 94667717, 100653233, 8209448, 98610752, 58098551, 59441626, 127555777, 48812941 >>,
       << 108907591, 115840713, 35921960, 126981955, 76625483, 30149844, 83479777, 26367463, 41040696, 128306486, 31030825, 91792832, 77117290, 53720043, 78850510, 2580298, 37202014, 42877828, 114577868, 28455725, 99232766, 104404326, 90176708, 79183626, 116115303, 24592003, 106190987, 133055700, 92461201, 46541288, 23423339, 68905255, 62922595, 74884890, 93135455, 29854329, 44878903, 61293693, 26592292, 33302098, 111029666, 107125015, 110863227, 68577376, 13234940, 119713713, 29704405, 33054244, 2643259, 125393416 >>,
       << 64612668, 31198032, 37209744, 45685959, 33360099, 84432519, 120547143, 112508981, 91162580, 27942979, 6774455, 24265023, 132306504, 30870449, 56787600, 41637850, 13619188, 113431944, 23986503, 20471832, 39341935, 101757570, 63841079, 125279451, 34023937, 2904310, 85032438, 76511741, 72307608, 50238796, 25619133, 95909219, 109915166, 61557118, 21110104, 7377240, 32444118, 30890411, 46552177, 6015958, 43512939, 122923913, 9747282, 53655030, 6468993, 16846136, 33358220, 110259781, 17726002, 43842699 >>,
       << 12863102, 109904666, 3803370, 65427611, 95120342, 12049318, 49075036, 127132361, 47847913, 43522270, 71715406, 115319799, 66928515, 7266411, 107907270, 78887625, 128315123, 129702421, 35805685, 85100737, 133904586, 93719464, 7023244, 36692823, 20385722, 20443052, 120173314, 86923464, 109765896, 92217914, 90610879, 40151738, 127010681, 45753342, 52783841, 41010015, 9557164, 10562429, 79689261, 83302209, 20974128, 49839839, 109120653, 49964097, 114870367, 11757659, 17662503, 43049249, 31215046, 68543887 >>,
       << 107479460, 109073576, 4777254, 126349925, 65271974, 103440900, 69373453, 10115683, 78702933, 12231678, 113344255, 33482786, 110366638, 131164779, 98349387, 130690151, 118906979, 46339922, 121254800, 2861726, 46881785, 96032358, 99713375, 29959248, 97875055, 92420111, 41615599, 82039293, 128982968, 34081688, 125037315, 102286212, 130742361, 9178028, 82741255, 95690611, 117371548, 63142210, 14774041, 44718872, 92879543, 66734716, 115201962, 101529063, 42152280, 48042204, 66595836, 127425486, 16277453, 120008965 >>,
       << 125066804, 52657892, 58014632, 107044254, 30952501, 23310618, 128686941, 69112881, 84799245, 87187182, 17644386, 131622169, 37267854, 54972840, 33021771, 2342022, 112728872, 105204416, 57791909, 16149695, 99989594, 55098703, 18002338, 113464429, 114363454, 9990292, 90107206, 89874179, 117119494, 72000660, 88198915, 48947043, 119692323, 127303504, 96115857, 58059269, 31869535, 42405116, 17639337, 1242605, 117306401, 104569540, 104135, 61498755, 58494557, 126103967, 9819040, 41964629, 5574806, 38810636 >>,
       << 20648422, 7346401, 42197020, 81485381, 75480965, 88520680, 51729163, 67239704, 108538613, 48116969, 89609744, 87527547, 56375057, 79946310, 59779580, 61817885, 117744442, 10381267, 41080280, 25480895, 92051701, 28960412, 92976698, 129433172, 56701381, 3218364, 122527887, 125261588, 67804968, 5641553, 100014072, 102738554, 79572412, 5092490, 14670573, 5923206, 10555854, 123005266, 38188914, 102715551, 101241815, 56049029, 98345915, 12891207, 114028580, 6718289, 98338584, 29064720, 80516640, 19971527 >>,
       << 65175079, 111542718, 68913320, 70389816, 67221150, 74795262, 13175241, 72202022, 79711480, 27799718, 5135828, 37721568, 107273342, 130702731, 120236430, 52444122, 88106372, 15378691, 51791095, 125932561, 32624704, 74472396, 70196237, 15284939, 54711410, 129773160, 68216988, 63502724, 94988777, 71894634, 98496901, 47286830, 11891017, 70792096, 109696177, 91946056, 47408537, 125170984, 56433733, 124951831, 79978266, 6139914, 133279702, 47045642, 84249878, 4722392, 88696223, 79351137, 51245597, 44838301 >>,
       << 133313232, 53721952, 101837084, 74733013, 71981346, 101826080, 21516732, 51028711, 64241027, 23635367, 70330815, 4600291, 1614843, 64312760, 127405694, 20949025, 95903352, 65535180, 21017555, 110611782, 238585, 97173963, 85673663, 132005269, 74353367, 15067261, 90359342, 89760053, 126653164, 116071738, 38974564, 60052849, 20714867, 84862329, 25924882, 61485328, 28290189, 47205032, 56368085, 37945749, 2381373, 62560227, 69224810, 29967614, 97596654, 97231357, 95552396, 104833251, 3862559, 128772156 >>,
       << 71600765, 29788968, 6672885, 103165990, 53733032, 81021933, 59518126, 127815540, 118689802, 69850779, 102037021, 80317906, 78381581, 84397566, 132693770, 76462896, 49825426, 13856666, 86106475, 34266221, 46530527, 131123000, 38125299, 81545976, 73635162, 27436727, 55251547, 61934850, 119681781, 10661020, 34925104, 52013157, 64532685, 35357710, 75738883, 4740382, 126677285, 58355386, 50857535, 70713307, 69135841, 97068643, 56083725, 60322866, 50006068, 9177554, 116554314, 75321208, 45315433, 102389534 >>,
       << 65957739, 119885345, 13552803, 11274434, 57040732, 40845403, 47556484, 57862245, 6098023, 47123077, 89769553, 81553392, 106784325, 49048923, 110196352, 53978436, 27813700, 133803326, 40757925, 33412670, 124302839, 100729608, 11999712, 67616303, 6551774, 122957534, 83995709, 88022819, 58907563, 28119831, 78996698, 125090607, 19669560, 2182045, 96604440, 4344952, 18079492, 46907749, 71035534, 112057637, 129026837, 46452909, 57515281, 44463178, 101793642, 106167186, 28712940, 32242644, 103418835, 63045482 >>,
       << 94422957, 63997379, 64707838, 106649660, 32474543, 2473434, 90866325, 26851984, 13344149, 50805186, 66455097, 92276409, 74787394, 64562936, 14531132, 79443831, 105060905, 21594058, 112695816, 55792084, 14459435, 49818487, 38006609, 73485000, 64489808, 90368487, 20629122, 1693188, 114368794, 13891054, 19270621, 35248418, 89226114, 7727857, 18588579, 128035169, 50324737, 128218855, 109798760, 38932853, 45233421, 43117431, 3191037, 88339988, 7758252, 133786573, 45916088, 39699912, 79168861, 133218119 >>,
       << 4207820, 68086079, 133349052, 99908429, 96626187, 4895996, 89363234, 75643131, 78671608, 123265919, 73895111, 113136289, 28022091, 76239493, 113633545, 66568701, 53883262, 84704459, 61504958, 31796388, 69850716, 68451296, 64197731, 18133435, 41588217, 50668069, 13072366, 52576813, 28797100, 1770277, 27138540, 107150574, 106509065, 103607914, 37862613, 33384061, 70618914, 29495553, 103676081, 90093715, 7977764, 3690590, 4014272, 77881596, 10665998, 39064029, 29984459, 41992881, 21124324, 82555715 >>,
       << 41233484, 83008473, 125740322, 30336616, 132327380, 2383724, 65997353, 92830607, 130682197, 95813944, 37309803, 14274940, 58744804, 133088917, 76254307, 76020055, 129087108, 86411788, 55401934, 42156701, 132925161, 36436071, 55473837, 101280004, 52007482, 20482151, 68717416, 83107246, 66643230, 93037989, 26125671, 48214537, 13391720, 70044065, 81287012, 107165776, 50679555, 21040273, 19498095, 45207719, 20830979, 60712265, 104419929, 43930317, 84803643, 54253550, 7474155, 560704, 22271229, 17098634 >>,
       << 33529159, 5013701, 17399889, 30125806, 120344927, 128033360, 38516457, 5228178, 49966619, 51303604, 99798674, 62827018, 60613787, 114503224, 113817557, 130941990, 127970414, 13701553, 24756755, 48241304, 10578035, 88489099, 49521314, 69612976, 75680278, 98861938, 5835772, 110872670, 35217996, 13728994, 123886685, 69334562, 114197893, 84427432, 22280380, 103643305, 115703375, 68027044, 118455424, 121898662, 1606904, 45206442, 9321385, 55407459, 54028935, 57895682, 5831024, 95245984, 72781571, 107513514 >>,
       << 15402621, 114058322, 24117962, 29193682, 77727463, 17057694, 65470955, 70760176, 74266059, 39448319, 103525370, 36965029, 65218296, 85212904, 82438053, 4515818, 78343319, 74742338, 51219817, 107328196, 25998100, 55872719, 11126328, 43806657, 18862297, 63570259, 52466791, 82073994, 43346833, 111283647, 74041922, 108758447, 108987222, 114824500, 115128933, 37829025, 40633896, 40658707, 20843042, 1988189, 19427697, 21484322, 107272811, 131141595, 34832400, 93157801, 74533976, 20021965, 33696985, 72033461 >>,
       << 73043949, 112258653, 52732302, 25688312, 97198721, 9461892, 32791587, 116542104, 61940067, 31501634, 62011758, 10309185, 40292620, 49256735, 5577065, 30382029, 126570262, 9888274, 112420522, 112148808, 116969078, 14747409, 122594445, 71539870, 4236739, 93341735, 20468147, 51037503, 91139200, 51089768, 84731443, 78807337, 109008057, 16345515, 123491944, 35375799, 105761727, 16310364, 81105461, 102305244, 33357989, 89863623, 77007847, 54863403, 859143, 51436901, 11444715, 3289311, 35392447, 60961703 >>,
       << 124913670, 105026901, 105757682, 12417137, 117220063, 67291486, 76217000, 111845307, 99905926, 16661843, 111510675, 13681577, 109331440, 77867908, 107942921, 107319787, 82629613, 16803334, 98467184, 42322663, 113682268, 127240284, 50783301, 128367590, 88285403, 90803860, 80429634, 19195091, 119237802, 40771829, 97479799, 65256927, 54922827, 75188624, 74116580, 89802489, 104295584, 28376094, 38851473, 8508133, 130033140, 6075564, 29587553, 35142715, 10535013, 37702255, 12513974, 26575666, 101417398, 9363099 >>,
       << 69211878, 13910943, 14879958, 126683846, 115140736, 134139942, 114742116, 75479078, 85025332, 13900753, 41882705, 1302913, 127342737, 131972724, 45876427, 123699061, 11532504, 93604460, 94472017, 31065481, 21014788, 42260176, 85386753, 15548342, 59718067, 117289420, 78818874, 89726761, 298829, 41569610, 41851655, 60456489, 5174414, 67421330, 48473870, 55575602, 183014, 76842955, 99970753, 36895175, 106352101, 6411095, 108269703, 134126980, 121163032, 51860648, 60832218, 13433516, 39716661, 88661834 >>,
       << 109726779, 67555616, 61575241, 70674637, 28545444, 9289070, 2923389, 26566053, 14034673, 35255791, 108625657, 108345932, 47471125, 102398390, 122195165, 52308070, 36475851, 42238652, 63592528, 16796445, 127019085, 102618915, 20463665, 61434761, 44039823, 88770579, 131092694, 63403987, 80482789, 36076812, 106107097, 7335354, 61068253, 97394276, 35933985, 3667014, 29861312, 28829237, 115138870, 133295290, 125810208, 60362222, 35638114, 34664577, 82978349, 84206540, 77930094, 82334102, 123628908, 130134318 >>,
       << 70499581, 60368125, 497942, 81103559, 126509360, 30825851, 33142680, 81665930, 14299908, 95028693, 30703561, 52772318, 100367206, 130146970, 134067255, 82526538, 38779601, 11940221, 24940623, 109497553, 84567044, 54293820, 129314994, 40326991, 9503739, 578075, 111864527, 51715208, 2271149, 30084550, 22525718, 57260946, 101881662, 108590833, 60521495, 47055782, 31372427, 126205355, 8773494, 94331316, 86691736, 74695013, 6103320, 46665214, 65620447, 124213091, 127231903, 53227723, 32404976, 11756011 >>,
       << 91998883, 112275262, 4859447, 10900384, 3591964, 133741361, 71647492, 80874328, 54498623, 86437170, 44598843, 39637541, 54627111, 105603238, 12699828, 22245731, 43234102, 30314336, 53172340, 5026701, 52143240, 124959518, 38737977, 2861296, 8245376, 37701601, 59164829, 39002742, 127585121, 69934637, 53687857, 62260804, 80456428, 40307411, 117683979, 75353945, 50810942, 104004968, 85305783, 85382564, 78366804, 109563082, 69635562, 79314895, 36456739, 68285360, 33866572, 69358956, 9306171, 62719553 >>,
       << 1626322, 120552094, 87192052, 33078814, 54396768, 108464516, 14297366, 3402843, 132637690, 7188330, 123661929, 119726720, 61202599, 107096672, 62885745, 527303, 101132194, 9638979, 59661898, 65268280, 127464452, 128279308, 102705953, 115645026, 29786072, 87757204, 64487792, 42036808, 77057351, 121796298, 41599753, 79929117, 26477223, 108574722, 27110493, 109504658, 132906476, 125390500, 4962333, 59612966, 70840807, 13859781, 14850932, 125034195, 118778280, 9916592, 59371178, 14309903, 77005329, 94420062 >>,
       << 101856445, 56790757, 111688931, 6988827, 133238004, 4900781, 37316822, 82689851, 3171035, 22846702, 123737154, 12458835, 35976998, 38468682, 39423056, 11560307, 126810677, 130424574, 108736990, 47871750, 44853899, 113978796, 79445899, 56757196, 60094499, 37489167, 30527771, 31187115, 31312125, 89333082, 88849377, 69656698, 40673081, 89065797, 75785319, 98034138, 54647700, 132194654, 94130876, 124234315, 45961943, 50200866, 126181198, 21710870, 30710598, 76174856, 132290147, 14616039, 64430538, 104173750 >>,
       << 91228598, 3558608, 109863051, 28335496, 97561890, 31425510, 48344299, 32722697, 121718233, 169422, 117632990, 125735230, 101620440, 7435827, 41757376, 82837679, 93245321, 106967133, 78606838, 78330410, 24174266, 51637158, 84088444, 54253283, 131526223, 46705573, 28781963, 96548304, 51796879, 96319077, 14987846, 128479230, 99280744, 82332317, 64105410, 86918659, 111598245, 61251873, 31589221, 13927190, 133472767, 60992556, 29052220, 129054241, 76225604, 116642347, 40726836, 102454937, 57387731, 93210265 >>,
       << 122545969, 20772924, 36647653, 67990241, 66479373, 96322283, 97009140, 20432836, 124700946, 123245241, 26316891, 106405109, 100159747, 108956254, 75183066, 110418673, 46841447, 113521020, 70605522, 50481407, 115135003, 44234067, 130157494, 88752010, 32695616, 112151472, 83447742, 20593541, 116199903, 64312089, 88429762, 108994205, 52079201, 74277180, 60832175, 89091235, 12413633, 35000560, 94126272, 10501313, 133014191, 124203537, 128709283, 32403652, 36705807, 77377452, 26945309, 106170369, 16692385, 120063963 >>,
       << 102690808, 64639935, 123132818, 81732965, 52414294, 59098537, 125792289, 4479939, 57770141, 786998, 49028567, 48833445, 75056573, 86044825, 13591980, 64114593, 117133638, 30735255, 110696947, 42873169, 62076710, 81540617, 16816863, 15897063, 118223849, 96247346, 16298750, 52154482, 18286828, 45499968, 3288014, 52774608, 93614981, 108913254, 78845927, 74798496, 82188970, 25229985, 125421470, 117696579, 49794029, 100678780, 35295703, 52767017, 40568604, 53773543, 28001296, 110006230, 79527979, 71821888 >>,
       << 93141956, 79989755, 60110808, 2090511, 13639785, 125986357, 39724506, 88935572, 131154920, 84341360, 86689645, 43977460, 48401492, 65229497, 658013, 113676381, 117297038, 30974297, 80436654, 96280724, 31854837, 33626562, 88773215, 17759726, 63811952, 93363221, 112733224, 131827146, 13295108, 97213712, 72612653, 132280242, 53032071, 53355943, 128012120, 100309383, 78274599, 129503833, 20255526, 48602368, 43238807, 16930651, 81112704, 111904163, 114386334, 87033089, 7349823, 44193479, 3201572, 83367727 >>,
       << 124005980, 23304838, 52268428, 132192657, 7193528, 951333, 6430431, 89497613, 10764846, 105196046, 128636956, 106873861, 109926561, 14909701, 89553066, 103444010, 100642616, 7433350, 11162108, 109786915, 43849327, 56926086, 9905212, 55737690, 9450698, 113560005, 78573718, 61696280, 25840463, 75409976, 34617842, 105734216, 33873665, 129915091, 103524288, 100258641, 83682955, 84127596, 69024153, 10992522, 18698551, 127179193, 11773582, 114811953, 31002695, 162044, 6291963, 90272957, 99303259, 74630582 >>,
       << 68718643, 18781308, 87932551, 102513019, 25933188, 71250258, 114580927, 40661973, 89390270, 130394335, 50394460, 111697076, 76901486, 83818096, 6876508, 102564091, 91321636, 92153685, 127521846, 119407737, 122568371, 95144980, 110047609, 75253501, 114447107, 54341940, 64165645, 17160637, 26392862, 90443124, 125113437, 29266348, 9875253, 8235776, 35392686, 89296467, 35218649, 71031418, 16759624, 66275402, 90767292, 119315264, 126692880, 131402164, 62572823, 127330680, 84301757, 32884958, 84306133, 133124653 >>,
       << 55390574, 114900882, 120936171, 125988706, 48694273, 130114303, 42548353, 97259445, 56236011, 9423062, 81323650, 18589541, 16971186, 132583739, 9639744, 103629518, 133052042, 71176505, 73410432, 18282158, 117948721, 18751442, 2817399, 55117946, 28631712, 100750927, 10953672, 70634667, 97607833, 132076860, 53369699, 110319911, 38577797, 16316077, 64517422, 51594165, 8473232, 85640976, 84515978, 84205311, 130828394, 96339340, 29976766, 111195358, 3899798, 20876314, 25445439, 55493661, 35137991, 102619795 >>,
       << 15618711, 92647532, 84260732, 58567509, 81544074, 32042581, 56849336, 68013886, 25403950, 42528787, 122548953, 83976791, 81804256, 79330049, 8874155, 55542934, 113765187, 62067839, 58323698, 36764256, 2006626, 112286705, 32724726, 19775899, 30243036, 104898183, 77498010, 89446070, 9089198, 95699527, 76714178, 98538986, 30617207, 88394347, 24116894, 131199284, 46075524, 18778669, 105816446, 120755590, 71626676, 20023268, 118851299, 119033825, 85236926, 108050811, 53998305, 108051078, 60963566, 122340710 >>,
       << 13649802, 23461913, 51074449, 119193856, 80866578, 32265907, 61887173, 78272203, 34901538, 81203522, 113509873, 83834759, 76191440, 43067540, 113502511, 115437423, 22201737, 125665698, 25031616, 42013010, 24831499, 121735137, 82530580, 55629799, 102221607, 34529256, 34646722, 40437758, 91777295, 69824914, 37369049, 102021661, 129041489, 33327948, 107566759, 123721202, 100259678, 84529490, 57606865, 102910627, 94418773, 97931430, 72763265, 58385552, 68088066, 15161988, 117052378, 130458930, 118620787, 15588958 >>,
       << 9983854, 41488074, 105113106, 130337933, 29871880, 29633455, 6218599, 57188252, 34561594, 3262588, 81201698, 94963395, 69757952, 3291261, 43013368, 75420780, 67066202, 64277245, 11431712, 112865183, 44821162, 42582456, 94285338, 46670189, 79702804, 90572034, 88573777, 104922723, 93180915, 7487508, 103471590, 85940733, 122117501, 52164584, 93764562, 119289754, 22400865, 104689659, 64623383, 71222187, 64278105, 124697838, 81839237, 6996835, 23049268, 123788251, 47825905, 77460714, 13149169, 92354606 >>,
       << 20393586, 2122168, 95729357, 97943440, 35761862, 128114807, 52368199, 128005605, 31592244, 62808806, 22588689, 15600105, 55358948, 23968273, 118960456, 97237808, 129738312, 53262557, 53052213, 97287170, 3018198, 29039901, 19562798, 25536507, 43486662, 68279234, 39856856, 9725451, 71831636, 106878119, 901068, 23516166, 83549027, 42879199, 46264922, 88301030, 83111440, 79112926, 76205323, 127693126, 65727209, 62868537, 103288847, 30518226, 96835933, 61119118, 130214192, 123071027, 106925287, 76671900 >>,
       << 26248338, 80751332, 111478337, 48184565, 131096612, 65614320, 114449459, 77694485, 42392285, 102494143, 46473789, 9052721, 75742423, 129073226, 86368939, 109538273, 19602335, 34206177, 96611485, 60591117, 36162597, 91561943, 11453927, 9863721, 8642360, 64355290, 90652331, 29067726, 132558663, 52548059, 129275203, 123804774, 61209942, 1590407, 29315566, 95359548, 70827507, 57136020, 19920279, 129023601, 47666937, 52740167, 128559345, 87635588, 62145013, 115809125, 57859742, 13968435, 13879465, 21516803 >>,
       << 48958314, 127248427, 74572844, 39146431, 98016967, 114106854, 21524191, 27553060, 27916520, 4110982, 106902096, 1934573, 72885657, 5766156, 48518869, 53408287, 128344451, 33453059, 4304815, 99739261, 127202566, 68204548, 93875280, 19616305, 77582745, 129386875, 22297367, 84326128, 33923011, 133442793, 85562972, 74976636, 18698594, 68622351, 62590779, 29953588, 129056866, 122019058, 112549680, 116030513, 22989289, 107289762, 14848585, 5276822, 119182126, 63310932, 91664253, 96115560, 70021715, 70432631 >>,
       << 27208992, 11170209, 23053885, 85453300, 59240585, 30806691, 96136011, 57278646, 131746762, 47397903, 102340573, 123433985, 39004748, 73117599, 46833358, 20044867, 24681567, 358277, 63342209, 17949517, 883622, 8597103, 82836863, 60289142, 113407780, 3020677, 73875207, 39584387, 18485370, 73117789, 63077002, 34008664, 111347621, 90384629, 9308637, 58633488, 91520169, 96162969, 21497085, 65774300, 82285130, 93709082, 57697780, 102278263, 119188479, 28097221, 84453907, 53091156, 43788150, 8888220 >>,
       << 21073546, 83846569, 98162675, 98067831, 43921119, 47443611, 44562556, 12264065, 91862804, 95210640, 2615123, 2458919, 128445702, 48779040, 118782937, 10839968, 4343431, 68889607, 15411342, 83006072, 40745090, 92427104, 72177752, 103157531, 34350722, 95295297, 17300390, 17290104, 57616237, 117724176, 23208690, 27916110, 92621198, 6396334, 1726698, 28159410, 56148857, 1440873, 133685223, 60639140, 18071125, 17314345, 32296424, 43250159, 5138704, 20607888, 100102565, 87804396, 70994079, 30992724 >>,
       << 378569, 94675764, 121388473, 25555144, 89880988, 36469179, 91644247, 19105286, 117729794, 109961213, 85865113, 36863976, 26506844, 133649264, 61323628, 44411844, 108297410, 27475896, 77083341, 15398534, 131615372, 58349682, 103014799, 76923860, 18997957, 114007314, 128406367, 75196066, 4044767, 116027038, 81355359, 15013221, 116930498, 55773216, 95222675, 53203274, 29677356, 16638686, 56643487, 112774273, 120776091, 105301809, 57213325, 82170282, 51741869, 112225931, 74913865, 63249492, 97560620, 90739411 >>,
       << 41010058, 1241479, 33383873, 27694661, 115175998, 192600, 34123401, 50172777, 37372680, 122122244, 33919633, 8627194, 126549517, 2531331, 52282473, 13366770, 58504716, 52474261, 35420487, 77884515, 62318334, 575014, 4110771, 92043061, 73362808, 38573409, 38943255, 105868118, 98566921, 44464700, 74131006, 3686869, 13401959, 44184184, 97827031, 88031820, 12748495, 65740036, 54655712, 40174547, 19153041, 77860620, 126885526, 55415031, 111418906, 93052851, 22811161, 69219348, 482235, 78698368 >>,
       << 17393802, 39690619, 12870492, 15973961, 48139173, 814861, 42661256, 109805721, 2437182, 87804827, 81851272, 129429337, 108186689, 54753508, 82580658, 76926315, 131295121, 94634123, 55794623, 13249368, 98087374, 96480750, 103728337, 26191515, 16397251, 44277918, 112267393, 21800801, 95072897, 44481986, 49993132, 21447620, 93701542, 32821904, 93457701, 21829800, 17872314, 88672138, 106459263, 131482131, 74178712, 125553760, 6441672, 43537171, 67540284, 112401077, 73584618, 25918320, 132084483, 61207189 >>,
       << 86962570, 59734090, 85357243, 40823753, 31542729, 46954925, 123645917, 36374784, 99343936, 7686107, 128130549, 93876801, 114196911, 95711818, 41079014, 66698694, 133554489, 54303404, 23401772, 125952536, 45615554, 100146829, 116818554, 90779795, 26639171, 79968853, 48873024, 6271035, 103560828, 14295118, 11668838, 15543953, 122760291, 44239781, 104192349, 21361738, 109665460, 43570272, 42861263, 67986964, 92049626, 58438658, 112048179, 24370847, 62143726, 59770024, 94505968, 72920205, 74110101, 72249792 >>,
       << 23779125, 53937534, 5419287, 29668704, 11067060, 131959392, 59745975, 37092461, 71339972, 78861111, 2507322, 130106622, 31938429, 2667181, 34188891, 121933577, 129364541, 48149856, 107688473, 121119358, 71624855, 119573773, 107042758, 68115337, 938593, 94851488, 101902435, 79592307, 63201497, 15801842, 112309373, 72956541, 57950709, 9047209, 107276562, 119299010, 114024087, 113198514, 41540154, 110973539, 120942447, 17615582, 23902952, 81759024, 133097581, 119839461, 29552770, 49388927, 128483723, 94290394 >>,
       << 44087406, 128798592, 92896983, 103101666, 39596461, 88684481, 98091335, 48917715, 80028295, 118015181, 24299673, 6066047, 43752963, 98844944, 106495275, 47328450, 75635834, 54595096, 59452369, 43107401, 59715793, 66561978, 80474851, 81505983, 131876222, 114432649, 11846501, 14357909, 91351193, 25282178, 105395074, 60292341, 132800255, 79512490, 107036084, 73585135, 29997619, 2459062, 95112211, 40996827, 101817048, 44474154, 62778448, 55254373, 130401364, 19165758, 59344625, 117312883, 33569749, 43639349 >>,
       << 102952284, 116498581, 91647719, 13969371, 11779369, 133858071, 52218027, 75476, 73751604, 76502371, 131386537, 119749357, 113933166, 47868085, 129920052, 71216853, 76563179, 62378335, 122348009, 127318027, 5231254, 107104692, 101537408, 14633723, 117869275, 46792399, 88489419, 124603243, 129420870, 22533376, 24365090, 15607603, 104231829, 27528864, 27033804, 50857200, 95203306, 70019765, 79874673, 104267342, 50460632, 8158813, 1041851, 122864691, 68990312, 26274131, 36546762, 61539686, 58065670, 91369888 >>,
       << 100439600, 9441945, 17435514, 90143178, 68127214, 85311448, 77546587, 119201739, 69285211, 78747091, 82869735, 96840492, 30505177, 943881, 92188669, 132659367, 123571809, 66550794, 37683408, 52400732, 121132017, 14203908, 99384681, 15680922, 100354740, 33073498, 98049086, 112353866, 76805418, 81107497, 101347988, 85771994, 64312353, 77486054, 118629259, 115467515, 113499985, 79778219, 16998114, 62618249, 14110651, 85013669, 121649982, 124690995, 44071706, 93406369, 52874708, 125499115, 6528164, 122455602 >>,
       << 105112044, 114930743, 113946340, 29571749, 28352645, 69910069, 90833050, 65196261, 100417446, 72612215, 118370395, 69665571, 90815221, 47347429, 118449132, 111230176, 19533216, 68902551, 49055924, 98499755, 86262865, 129283290, 126618971, 75272184, 115531973, 82512975, 68733140, 53225922, 68790548, 87504741, 14081236, 73296061, 103746022, 102943540, 34655375, 104145216, 31521310, 130077712, 77226248, 62734927, 53140250, 93506349, 32576351, 6865176, 95531382, 122053266, 120332241, 76299139, 1147952, 86577129 >>,
       << 546646, 63117761, 31838045, 66631244, 78837549, 38193956, 82607861, 78167389, 131562623, 82103599, 114038524, 105086559, 126518895, 97710321, 87707698, 110576960, 39888019, 104935954, 37137108, 41960882, 62083054, 91803722, 120883875, 86244314, 88509557, 33910256, 116708797, 107370276, 41568151, 37192240, 14806809, 114084936, 129253116, 5800202, 60652921, 54088669, 78051688, 121551152, 111177772, 22864847, 99833473, 57182554, 18178143, 51754540, 85932835, 103506696, 124319426, 46084974, 38226449, 87804184 >>,
       << 31173353, 39959062, 103158704, 60656290, 111446965, 47601184, 133347249, 76241718, 14646532, 92525576, 52479024, 4159751, 125719431, 107418767, 98465597, 34777901, 33485397, 45752482, 77811261, 87544776, 123427050, 69174820, 28091497, 123601317, 82037083, 69219396, 44209953, 128151724, 84110848, 85473930, 95380277, 115724974, 76194300, 99424752, 7273282, 62016809, 109035121, 81331926, 94495020, 105067788, 76813030, 129671297, 57605349, 48838377, 67951960, 114765826, 42174665, 60456961, 68099812, 101512611 >>,
       << 29926302, 123739728, 90185064, 66690005, 44273820, 55920436, 89388087, 132368511, 107020949, 74110196, 9669496, 50790227, 64015325, 70631761, 41530995, 133680520, 110570076, 29270317, 133007424, 41148878, 90890970, 5226870, 65606391, 112878220, 128210830, 93069748, 28254967, 7622114, 133691419, 59439230, 87530727, 89915673, 13134772, 108229193, 92168427, 112769380, 62541552, 62504085, 128486839, 52067012, 12605652, 118133266, 123642158, 92084393, 85472663, 115411232, 25944982, 42453462, 88260093, 3428002 >>,
       << 86156859, 84076413, 350851, 66025664, 68163958, 71752996, 29247654, 52063620, 78365465, 21034897, 19946395, 25601677, 26490721, 96032321, 95509248, 67249703, 43157286, 37919353, 1832614, 31715154, 121358325, 25379284, 54868237, 78066782, 78902387, 81069490, 45643095, 17434323, 128035029, 74400326, 44698618, 91552315, 102787632, 5800627, 97716601, 25137242, 30092731, 11676722, 102673783, 134174527, 129118165, 18554878, 124781770, 110241273, 91721266, 107530238, 52692263, 42286773, 26248617, 21289886 >>,
       << 61552351, 31929442, 42085575, 93194851, 90056304, 95420107, 44428021, 108563625, 15955956, 38217622, 83626897, 60463786, 20921211, 35229697, 79756942, 92606464, 7198110, 25283206, 18744055, 130000460, 17174355, 32972877, 35948650, 64702529, 65404146, 10044395, 39194152, 56892333, 106328712, 82191476, 44256849, 118947759, 4480164, 78538853, 32618350, 95343060, 47906991, 42139442, 49411511, 46261694, 93262624, 60597233, 132431899, 132691742, 5623943, 122573936, 131796083, 19971131, 4932213, 5496821 >>,
       << 55173320, 15239904, 63117699, 33752598, 9884183, 26113612, 56115983, 130778402, 41495842, 35630639, 125764402, 125271799, 106430217, 48378939, 75645219, 36788371, 107283005, 63096728, 107266193, 52563413, 14919249, 102806931, 21490599, 14465121, 73955621, 75661010, 33458001, 124442858, 88942324, 80136767, 12514969, 128386220, 85210492, 19793750, 64103606, 90865509, 98303620, 101445086, 105454269, 1915171, 113110498, 56166893, 43611062, 3981397, 58733605, 98642368, 54387862, 13873812, 121618271, 20645556 >>,
       << 22663997, 116675951, 20055773, 121648478, 131321918, 72614526, 87121722, 31790179, 88075719, 95305954, 84868610, 3545322, 48946218, 51835328, 39733764, 38021653, 56270290, 74820644, 93277922, 47338747, 33330607, 90086492, 586659, 125736498, 34449650, 49791875, 49622552, 43465341, 108887958, 126107994, 45648706, 77931150, 44690084, 6852499, 16920726, 130127479, 54746059, 28487173, 94716483, 44671725, 57539664, 888112, 67071604, 66896668, 65402764, 103100735, 72334439, 81297709, 107643969, 90216354 >>,
       << 41824047, 123873828, 106513245, 29043039, 31150164, 86726933, 18374200, 65519541, 55021554, 115135416, 132360686, 25727682, 77384352, 97062884, 80611976, 8283438, 35279525, 91049842, 110525691, 55171529, 4746697, 3923420, 69732631, 23883134, 93184807, 99566773, 110704101, 32775495, 53728348, 75908867, 50604064, 96753897, 88676236, 131942853, 110007148, 112091414, 19074620, 127243796, 128834369, 56920243, 119425857, 124705848, 75538523, 2331631, 24661393, 127096939, 92026642, 24664060, 20087920, 8330742 >>,
       << 75730175, 59609128, 50267859, 127358874, 45252674, 90802935, 3135833, 53742264, 13983263, 61459848, 103785056, 81267783, 4982996, 57937221, 86344275, 125970189, 122944507, 62039090, 3188608, 123169854, 96811531, 9010715, 128337075, 45736075, 91028508, 14470594, 23171812, 5190583, 7491622, 27810769, 78385651, 113862724, 28022663, 33937141, 41518739, 82087751, 4451277, 61350360, 58575790, 80414219, 63837078, 119996928, 21956648, 122455489, 15368629, 51323859, 24470780, 97726054, 9916771, 73985243 >>,
       << 87114476, 25989570, 92055521, 31899620, 101322196, 92107948, 109776355, 31032607, 78942330, 98608655, 85254174, 114778751, 112619353, 9739926, 99406026, 80029835, 21146177, 77576696, 123462163, 50724162, 105118872, 87080212, 81792318, 19690538, 15096126, 328089, 114098605, 45254864, 30109240, 3340749, 64476041, 11413833, 21423218, 23264807, 123432564, 56089993, 5653750, 116218067, 7469659, 120489336, 75057990, 16901144, 118710286, 19504200, 68572891, 31296026, 87559319, 62183211, 59655946, 100475078 >>,
       << 37544493, 24404953, 60938874, 104609808, 7266689, 42353280, 38395922, 83274386, 75116266, 43506740, 65900307, 98695414, 72675371, 71866592, 119338136, 59714066, 105936169, 22349259, 119542914, 73484486, 125296589, 19500942, 8340223, 53717874, 25973235, 20230087, 21311013, 93008797, 88615080, 69599020, 111480545, 93107054, 100299654, 99656997, 3461757, 128847103, 10623370, 131647556, 133792115, 22469528, 56557799, 131001897, 77433088, 74276934, 7115675, 121002217, 39075648, 34720281, 55828839, 94447463 >>,
       << 56248802, 49080045, 67547679, 77791234, 43492445, 18435369, 99408580, 118251082, 36339682, 65910245, 54808061, 1763747, 113365998, 76217978, 55962882, 109853662, 92960593, 110315642, 2610868, 86802950, 57255531, 118932546, 111442977, 127615270, 35603856, 59050527, 20888505, 93251053, 84238694, 34503300, 123052942, 109598118, 134126969, 45988531, 23740973, 48558251, 61878659, 29194894, 60807149, 73834823, 62515450, 93264793, 33636093, 62984831, 66413353, 73478162, 121620079, 71986705, 35013543, 1891665 >>,
       << 59259655, 483656, 108778570, 93533375, 93828224, 81335378, 36585687, 55911641, 42692028, 64230064, 62827683, 61491610, 104077280, 116437540, 7094446, 133413419, 58247317, 11597835, 19096390, 121451189, 82519969, 68981080, 67125394, 81425021, 60902672, 127976036, 123652071, 20555871, 73250114, 41112891, 20812231, 53537509, 70122411, 8227106, 106778983, 80361394, 18298017, 68806653, 106924406, 132728432, 19680026, 119934391, 53828517, 92209915, 96576778, 9556411, 94951494, 86422953, 101453764, 50688019 >>,
       << 34515096, 16042556, 58726543, 3603181, 175799, 45848792, 26289915, 116190506, 66127947, 10003491, 86634023, 69249093, 126366812, 56941236, 4466147, 44921179, 51968105, 97795840, 96265697, 53393716, 72846503, 69163878, 1419280, 106689468, 27013300, 9968446, 92606702, 112652961, 129344970, 86068914, 53877586, 50734152, 41018867, 134144840, 63344062, 130112559, 116762061, 77474297, 112489717, 49349471, 85359444, 8603895, 19373689, 62573929, 78199718, 70289384, 25623259, 120469402, 16537057, 118127342 >>,
       << 23380752, 102135594, 102240624, 133775977, 35233307, 17922919, 74711545, 91900522, 48447730, 31973667, 131933558, 50074035, 90228046, 92029463, 36246431, 11167698, 112535513, 53540735, 106274034, 2416691, 11373720, 77416904, 81058148, 11489024, 131144694, 82786146, 74674300, 91390664, 35123603, 74647131, 2646846, 70101849, 59054737, 370853, 124951604, 94281415, 15904783, 63254279, 157662, 92897348, 69046488, 104615265, 97164330, 91959941, 53738922, 65216242, 117067735, 120582828, 13793787, 49260465 >>,
       << 22890838, 5289465, 64362557, 62725216, 87089084, 13886243, 97244923, 127379703, 7357022, 63256226, 110999433, 38283180, 7813506, 38249537, 30345133, 30190318, 56995399, 130867909, 73547534, 77709535, 50061882, 98248652, 59409407, 80141753, 50909737, 60802201, 93870258, 20356298, 86988751, 122408164, 39415833, 55335804, 11171947, 89884390, 7208642, 43959403, 130787869, 9042736, 12293104, 4695976, 124335666, 111223181, 76591334, 124172053, 67616, 6877537, 90769514, 62945676, 6844604, 109419935 >>,
       << 14245232, 66620601, 74526722, 98906283, 48603012, 3768437, 97510892, 23704263, 1586540, 49959060, 6451207, 19944387, 46709860, 89271401, 38796960, 75879462, 63559524, 21940882, 92083771, 102354600, 124861439, 84116630, 30822232, 94399286, 91627453, 82916171, 23572013, 4398598, 10993558, 1604596, 132842968, 90540764, 23105395, 83228956, 120959725, 118876097, 63171984, 48918923, 121395525, 83801562, 106106611, 80939475, 63534782, 36108649, 87029758, 61835770, 90521656, 92988560, 87772059, 89068383 >>,
       << 115440073, 125771457, 44796874, 85899843, 30879225, 116521941, 80416028, 56674905, 43122962, 79859954, 116375913, 100458090, 132575452, 60573130, 100417153, 41504428, 34145650, 111590841, 102016744, 22414131, 46512970, 20313574, 51482947, 89000662, 91026640, 91329378, 82615050, 102482178, 99588997, 34616781, 89784822, 87032971, 22248400, 7537175, 37752850, 11191155, 54286177, 38146483, 15167381, 46871772, 104496595, 96475530, 28345330, 59164310, 39154093, 5281383, 126320057, 106480989, 105616554, 91259250 >>,
       << 114190755, 49175761, 12470928, 120857237, 120537091, 133595694, 25186520, 31991528, 61550364, 125819981, 104820916, 131976161, 82223102, 102992022, 30839134, 116554440, 59611267, 105953451, 56874587, 106867021, 100877269, 53079040, 99530310, 76964296, 103541780, 105141829, 92170942, 81594291, 60034069, 50911535, 71614983, 15463529, 99796561, 90739186, 120864352, 50563048, 102961436, 123108983, 644042, 112405020, 71161503, 42980628, 46104466, 66626284, 102921076, 11865330, 108492819, 106799066, 61445558, 40423511 >>,
       << 80357721, 88221206, 6231255, 107365935, 48743864, 69922737, 40033747, 82594502, 97118249, 52477183, 69284688, 68335605, 10581831, 36914230, 36624012, 78950996, 82178088, 4678844, 69190320, 7826513, 28378846, 128312494, 109989726, 106966667, 45286295, 67553897, 53790137, 22939881, 38016025, 98579083, 6057616, 90441334, 47712356, 59620685, 34291528, 35639276, 44385939, 3598268, 75824617, 82839540, 77518631, 74872162, 58616867, 28064890, 24515854, 34686834, 50182044, 102656781, 32680207, 42592376 >>,
       << 19509503, 130729983, 59239936, 98869811, 79344481, 14667356, 13042098, 120978787, 15644418, 12150619, 92808128, 129224552, 7617358, 122278262, 94104685, 69535276, 49921586, 107465562, 93010404, 115642297, 9505341, 129138910, 71703422, 33592725, 55077381, 90922848, 56947358, 120402384, 68676338, 81830947, 74343603, 89699322, 133609137, 97562326, 43151943, 80054740, 29846331, 109858073, 22272739, 10250766, 32583080, 47911145, 110964881, 77426850, 55304399, 15808761, 67119614, 89390140, 28138031, 7021643 >>,
       << 109888651, 88460162, 60929450, 97068008, 93207054, 26650222, 87353513, 36909642, 93037040, 125761236, 114275847, 71386830, 1115902, 117787385, 101919517, 5353031, 118749100, 20964359, 19836938, 88132864, 115215996, 56182346, 35527060, 20785398, 46461531, 82704915, 129896673, 127274777, 66483420, 88945791, 125148299, 18019495, 1161238, 44955754, 114294743, 44544483, 39796456, 73369977, 110895299, 22007060, 110412329, 77100880, 69396155, 116734411, 118698234, 124450738, 64997575, 123666671, 106258142, 73559482 >>,
       << 116026275, 13686802, 96403445, 81840281, 18912125, 129974510, 8621840, 114603842, 101830475, 107960098, 37838093, 63146805, 130425111, 91682649, 34277166, 81718494, 97823774, 72455076, 37586447, 59976056, 40942728, 51888097, 660333, 39552275, 23421654, 78366323, 33273461, 125557381, 61158617, 128635709, 13917526, 64663278, 96778792, 73503442, 123326081, 33832258, 91562384, 63678218, 132428155, 106622789, 118055097, 24191100, 10818494, 35198664, 57684105, 10539131, 61473223, 24583524, 66979544, 45090315 >>,
       << 71851494, 6364509, 108538142, 36429889, 46189300, 107456017, 19334982, 83415614, 111693275, 120400785, 24283905, 56884597, 59863016, 116000688, 126532361, 112598716, 57426061, 83171169, 123410903, 67571514, 69587863, 87114415, 83035050, 61068532, 79145547, 133298443, 72713551, 70428959, 61877617, 126259728, 63167846, 44378136, 39351840, 37417309, 44209899, 68816254, 34625815, 118578363, 60655552, 101803032, 39582281, 129718235, 9297424, 31621717, 37263528, 573297, 15508411, 123220907, 81923368, 124313046 >>,
       << 133562125, 18279459, 96911062, 125576800, 78013335, 133026492, 92868025, 132032813, 28592239, 55827709, 133509189, 119523718, 123069499, 437695, 92778785, 44062774, 129192749, 80808054, 58379908, 24426963, 93332254, 60891688, 44677235, 89051886, 133015989, 8590267, 132589826, 93723456, 78037790, 28023971, 33711182, 50583560, 120233935, 33446484, 69247286, 80907871, 3652784, 14882050, 20560975, 112782650, 37419903, 112942754, 131191650, 70865061, 38432274, 105713368, 39541343, 64225466, 81073255, 32534529 >>,
       << 56630797, 96471265, 105807026, 89802365, 46905425, 54643199, 15948883, 123630889, 119062784, 9382555, 131692875, 48337355, 54974173, 74408215, 107819440, 53963968, 18267454, 94657186, 17758737, 94117573, 123694498, 32211232, 116475670, 120293723, 8335251, 129666129, 126418787, 108902916, 62456068, 3788009, 88212034, 56221870, 45001576, 82314272, 33866245, 69586530, 4060890, 116284760, 42422573, 129895972, 31147316, 13708744, 50837295, 4714158, 17625427, 94831940, 17520289, 60332302, 85317597, 123990762 >>,
       << 40199426, 32383040, 33296168, 7094418, 28612511, 112339794, 59054810, 128878808, 90622101, 23657334, 108505137, 118776239, 122620034, 87317744, 96029197, 100724474, 121928721, 66042903, 9047050, 72060922, 55546861, 85327540, 87067062, 21736704, 38153914, 40030636, 61279554, 117065355, 117351628, 47263956, 56152645, 25240048, 115638965, 8405656, 107347438, 108244446, 14111630, 17456155, 83959005, 10267379, 28146386, 72961609, 93754909, 1924177, 65973748, 73085684, 113740926, 24965578, 74839893, 121343409 >>,
       << 65534494, 72422044, 101776784, 107098539, 6373472, 121624173, 53028461, 55860938, 10411841, 42808737, 93543645, 118380637, 40105286, 46535547, 83561661, 115664287, 68539231, 44470247, 68934149, 53866926, 50561023, 31091106, 47464677, 58117404, 43768865, 95113509, 111854464, 39789085, 10724650, 70180481, 124834876, 3855045, 22179123, 84352991, 114690980, 73950656, 91356906, 70095667, 23625083, 45444584, 18724692, 10204102, 125915238, 22998991, 122791799, 88955800, 70237690, 94609125, 72517098, 51167251 >>,
       << 58088262, 78383111, 5570521, 122316937, 124195163, 42426064, 111961892, 127813627, 82336235, 36575524, 52360117, 79098795, 123794710, 95932292, 81298449, 70594785, 102163829, 41629273, 23569051, 72055709, 67310395, 119529116, 20980794, 133350099, 92969808, 112836663, 71486463, 132895478, 38461227, 60264769, 118571743, 4832287, 44068856, 20685022, 5966785, 32553021, 10635743, 89905589, 29557332, 112707334, 90531439, 22489763, 109319170, 82798083, 72530459, 74556312, 116373174, 121418953, 61776604, 12236743 >>,
       << 106390283, 98460326, 101285478, 116081402, 22493148, 28133133, 100098528, 21386531, 123207065, 2250909, 27915295, 116428611, 58061350, 126788135, 51222220, 70189736, 58583191, 131555218, 39323096, 17015588, 105716329, 59393218, 124751006, 117131685, 100525331, 64495668, 73167460, 52237400, 18278310, 57374828, 126801000, 72689441, 94277677, 89040345, 104394008, 45355413, 24984979, 63243159, 19330727, 71025912, 62111726, 99157507, 50830809, 131742398, 3900400, 96955562, 32641876, 20071352, 844520, 67889872 >>,
       << 133404551, 122509706, 64842882, 60241722, 75301263, 30399871, 111556653, 36055930, 58737908, 130184386, 10736553, 128391067, 99774726, 973502, 54586336, 24427184, 89367274, 72067400, 30542047, 110579171, 29778113, 35696518, 85594238, 84999461, 46568012, 109154691, 116780969, 101252817, 101568689, 131349366, 128306465, 85444170, 94520537, 49430096, 64469963, 32577041, 45918988, 119548731, 57080495, 23284663, 25887622, 128049056, 87291731, 17322850, 115263284, 107940577, 114268875, 112638036, 60789372, 67069373 >>,
       << 86478719, 95809588, 102958882, 4905748, 7507424, 34183851, 44371261, 28583750, 45587975, 71234789, 47842293, 94719984, 78384663, 63057671, 29302953, 8173272, 126368447, 16888229, 104146129, 62046463, 29611968, 100054492, 85366281, 89817700, 110718106, 16987104, 22845907, 73920528, 46223367, 109496796, 124079964, 108730661, 60151314, 123853553, 122352849, 3039386, 41899078, 95185305, 21906615, 105852065, 34168310, 5604773, 102448684, 97552247, 130319860, 20453841, 44435111, 45927019, 45332192, 38970622 >>,
       << 121902151, 55102361, 69955294, 81018006, 97501832, 105998073, 94000445, 91795955, 29921388, 131681548, 77691564, 106805608, 60380282, 119772284, 122876697, 131944614, 61492303, 87139386, 5191208, 39348837, 13993698, 13958503, 55776732, 63978385, 130334270, 74882431, 72133576, 114596295, 128089393, 9281224, 48276118, 105859531, 78353801, 56549389, 85581492, 105272619, 115994569, 38317707, 53650974, 116694935, 86560162, 61771659, 31252151, 70819102, 52475664, 112931989, 105598589, 132405069, 117273215, 46072878 >>,
       << 51017988, 81701304, 1363545, 39865345, 129373757, 129566843, 37384667, 69108609, 90087368, 124477831, 120497570, 35508199, 100143591, 90077418, 57879290, 67036526, 100141301, 30637088, 27813818, 25154055, 95519468, 23933142, 83698131, 113835523, 9469477, 129499001, 92581193, 21882161, 38040455, 73063168, 80837681, 44331375, 47278097, 71760722, 62444119, 123214529, 92539336, 58747539, 3893310, 1418338, 88481085, 113952861, 56806393, 119610497, 21700441, 32098427, 90917774, 82538551, 35134226, 126166915 >>,
       << 41981391, 78206488, 112783860, 79567575, 90931056, 112993609, 37453110, 128699637, 21429184, 56605764, 36854431, 4264600, 65523712, 55375607, 3225177, 85386640, 74512121, 79811209, 43356480, 27693007, 7939904, 11427734, 17283689, 126708873, 96423466, 6334872, 30251189, 115354047, 128206814, 32875162, 77298758, 68672798, 3883704, 93121479, 15747531, 32389942, 96816705, 126879031, 67720164, 66947674, 12229571, 116386251, 101899011, 50455290, 19297925, 73054944, 30044054, 33252591, 47761876, 56948362 >>,
       << 73782677, 83826262, 7159313, 43012551, 119600413, 119133718, 73566672, 104026883, 133977691, 10159797, 5125899, 72590063, 90416920, 2269432, 127056643, 15699176, 49120375, 109871905, 29321160, 27743616, 61342104, 37608279, 112434887, 108463551, 26538490, 43765365, 54183721, 61523286, 2842173, 17354407, 85347435, 88038377, 60378084, 65901195, 22239981, 68651531, 102937829, 61848509, 9513051, 133947209, 42784602, 124285906, 51133143, 49098767, 81624905, 57914063, 88590444, 83348528, 49404322, 62099851 >>,
       << 93527957, 123013069, 78029629, 89628702, 120524022, 39703633, 47439688, 128944899, 66389110, 45718128, 76282104, 46071537, 82088288, 76509791, 49775121, 131031746, 49371260, 3411552, 119592331, 45983437, 43514748, 120333028, 87045335, 32210978, 92385945, 84448949, 51905041, 17985677, 75584044, 95304464, 84764033, 11137232, 59473277, 15399193, 40313972, 68980674, 48929055, 117485032, 119466073, 128455678, 112721554, 38416466, 120469887, 9973272, 75047946, 30099151, 83787514, 46301632, 126441119, 21535727 >>,
       << 92567122, 42002448, 17580033, 99196100, 114519982, 88960068, 120377811, 49254308, 19248456, 108582827, 125228976, 8281633, 126487352, 60818211, 120020186, 89756097, 103836219, 71080837, 86602341, 131065883, 67192571, 22015136, 103997537, 101912521, 9973170, 52929779, 87256466, 42055123, 12922575, 117261494, 9006154, 81907495, 84443397, 95263142, 24826795, 12419350, 40180682, 111700118, 121826422, 50232443, 65958085, 39647408, 95366063, 39708520, 42905306, 19990089, 8058732, 107888373, 27448798, 5417052 >>,
       << 105963820, 108291299, 89229431, 18187342, 63563406, 84647773, 51770098, 102681154, 83612431, 118340832, 35175388, 62173598, 27176565, 3452165, 68839047, 98066331, 103966420, 73407060, 18991345, 40290217, 127650645, 7607930, 25307134, 110398684, 97815439, 48637294, 91697819, 115191431, 32476984, 23126099, 97105913, 125787797, 12289232, 105464788, 22619894, 99029420, 133146192, 38186737, 117850322, 133048676, 38350150, 1289419, 98889556, 94251805, 23202555, 78215320, 26880457, 134038994, 103737380, 58587112 >>,
       << 31346763, 38864288, 86434303, 112138440, 106608989, 105493381, 2959768, 77292569, 33623486, 12113711, 23626002, 107000643, 96173645, 11884589, 110426385, 74044876, 120954095, 5205661, 48546204, 96426057, 111461527, 88588343, 22114515, 47456960, 64182273, 76728802, 42544938, 78248208, 76260244, 8204812, 94945896, 3611753, 37891425, 124161191, 109696074, 64216857, 81575137, 122553960, 33941067, 11883722, 18293268, 107438237, 122258514, 87967344, 31764883, 121364711, 20651179, 43609687, 40599083, 54577800 >>,
       << 1095361, 11588880, 74314767, 120801913, 79771429, 11671626, 128152674, 129726246, 104921821, 15281129, 27373216, 107362936, 40614898, 99457279, 129282895, 97960271, 131183621, 31302719, 35163181, 107514394, 67422867, 95301612, 49243110, 63483848, 9215034, 27129243, 28768103, 80641581, 102963400, 92022126, 83673042, 58036462, 92865855, 23608983, 119788487, 61965736, 57380624, 73398940, 55836016, 11701669, 24916110, 66245685, 32107112, 38970671, 109976203, 17236529, 15565838, 103079655, 15635996, 20231619 >>,
       << 3478911, 103786824, 22202865, 83113767, 11584653, 118494274, 93389433, 94992521, 27355760, 67444515, 11218320, 133403299, 30036360, 5292672, 12383858, 38923027, 79465353, 115332975, 40978736, 75226816, 4613038, 21845432, 82955825, 70550543, 127612602, 80844955, 6810112, 74632841, 73153456, 86533506, 70906125, 95483122, 9426874, 77630954, 50982086, 90922724, 55320330, 40536246, 108658579, 48380608, 21177314, 25267280, 15705784, 110662730, 76810005, 14454228, 90744657, 77271115, 116616364, 79200432 >>,
       << 4845306, 68872075, 20680239, 9409150, 90019984, 29119632, 25795744, 43074957, 52687851, 129416172, 75375049, 97584348, 109607658, 93441084, 27769263, 12629912, 59360294, 128728356, 20348007, 31340453, 102055850, 57852958, 118246023, 115773206, 84025036, 53511584, 65639999, 7225547, 133103883, 40318040, 130701120, 124254721, 95499244, 118111059, 93385016, 132944219, 9288498, 122310420, 64995354, 11418726, 1522724, 115193381, 87938735, 29213165, 92715148, 73531963, 121052719, 75589391, 12380473, 82997646 >>,
       << 15455372, 119166085, 67938013, 106459286, 102371705, 64308224, 38998599, 4800258, 43091868, 109137863, 116340970, 4049682, 15034333, 32101893, 96928951, 27641369, 104920891, 21325610, 3077109, 102467511, 119098664, 132352472, 33422280, 36565047, 127867268, 107241709, 35365918, 79515107, 49375996, 57694474, 3733392, 128600666, 66181786, 10282845, 34373400, 120039755, 69691029, 63719766, 103340502, 52457729, 46297382, 7788839, 110914354, 96040598, 66562797, 60905581, 46540324, 100814854, 94402808, 20601897 >>,
       << 48064168, 94957194, 115382058, 87646698, 61636846, 20404292, 30345776, 10098755, 110798020, 50643612, 101455534, 100178250, 28047152, 15793656, 52931974, 3502744, 112105097, 26286037, 88870526, 66768369, 128806206, 86233514, 67622717, 97722492, 10311857, 12458358, 87553316, 130515977, 114457714, 90172554, 99905392, 131077444, 103236664, 7364562, 42339954, 103420559, 119294438, 92613797, 101340173, 58987671, 131070824, 113667020, 130331380, 4157653, 128057987, 25228013, 101964154, 115011115, 76951199, 82148163 >>,
       << 50884047, 115388813, 103547116, 27618554, 8110368, 56978854, 53544468, 116721955, 61962500, 3048073, 1833987, 46354774, 79699557, 81542031, 37706512, 54035208, 122674650, 80154282, 115784591, 112380175, 129902368, 53271337, 53313041, 92129579, 81147508, 32959096, 115601302, 96061432, 18377737, 132448056, 102793053, 33261648, 29286313, 92613156, 61902897, 7954442, 3929650, 66189777, 14508258, 99614983, 91427404, 42718225, 70184456, 109896429, 1194876, 104871142, 3547107, 77845983, 66501852, 116319498 >>,
       << 122550382, 8818288, 36822400, 88042046, 6517098, 75085833, 56486362, 26561786, 33507076, 24508920, 29018227, 40029698, 28922923, 113330769, 4109854, 107250894, 101017115, 54522034, 45317976, 119393696, 71741623, 104463830, 65890183, 39346274, 38294218, 118337752, 93394698, 72707266, 93078589, 70616342, 74096160, 25863471, 83624519, 117476961, 87387904, 22964588, 32669377, 62830043, 44970155, 80500929, 98275350, 698490, 112840817, 77546952, 66154241, 25032163, 19077793, 70410475, 114208281, 119365484 >>,
       << 43623780, 122585642, 72711014, 112537176, 92939377, 18974799, 92059502, 50175130, 73874729, 126909648, 45320630, 99682771, 36822320, 47791003, 42461787, 134074941, 116805229, 15108848, 28396839, 83242657, 103253157, 15344844, 120012845, 77323948, 128153147, 56482920, 104921085, 3211324, 129366464, 28826107, 123391445, 41716752, 69710035, 115686468, 22158429, 104459710, 100796307, 31569052, 57494251, 66519519, 72834723, 75268458, 121987225, 27674589, 73525025, 95352928, 65637712, 26233131, 53201123, 117847787 >>,
       << 75509858, 112902326, 85215627, 25838057, 19511249, 127889026, 32282131, 71388944, 2280891, 4367654, 34641275, 93262123, 31592929, 55189596, 34270639, 58918324, 48867631, 69643140, 41768682, 55471544, 56517961, 120606173, 107315565, 36704525, 69425550, 57811278, 99059967, 64371900, 126665316, 95524266, 35668220, 13188894, 52733451, 30989300, 65913491, 102907944, 11856328, 17484465, 5179613, 53730676, 30599622, 14179990, 61386952, 44683276, 46332924, 119488867, 22636753, 77186925, 59359799, 64529989 >>,
       << 53638216, 5008521, 16351514, 34916487, 48096956, 68905447, 40521628, 653759, 68836380, 13883295, 14885838, 100568903, 104186892, 36152183, 33965313, 107273932, 10666439, 49643306, 58976931, 23926002, 73021172, 15131684, 94856180, 41823028, 95474341, 28746200, 94361444, 50901352, 119672884, 9186124, 9756509, 55575714, 72345360, 51165027, 15872957, 13687185, 41193532, 51903399, 123135762, 4167151, 115393377, 26607759, 117769431, 50338642, 10217728, 11989127, 69309635, 81546908, 22331940, 53642615 >>,
       << 100464080, 100440809, 2970946, 105051424, 44674041, 45861542, 45605194, 95197582, 84636700, 36186895, 50879771, 130372063, 47061319, 122106846, 34655604, 23548492, 99524927, 53450403, 67213047, 130161218, 33124745, 50972517, 67988953, 101073947, 34291014, 124137889, 113990250, 126578765, 104535184, 130319616, 113497965, 133099379, 31067928, 67086297, 60676751, 12013137, 132692831, 35825055, 108307637, 3664488, 26629414, 38932241, 117747200, 107279672, 90819572, 36599984, 84809946, 92071430, 42246492, 37689650 >>,
       << 133127871, 45360560, 113762891, 76048097, 47536203, 90538874, 55065698, 105754077, 56907156, 3846977, 1190069, 30986492, 133207904, 932180, 114249730, 11574000, 12444108, 80661320, 128215652, 55520823, 86372978, 131455259, 18477327, 20426294, 66644877, 104077300, 20110622, 128374050, 29601248, 130013237, 70150149, 50520526, 107355634, 78791839, 63293939, 121748511, 35843604, 92206105, 16872196, 92672716, 13285496, 87460707, 115056879, 97546545, 129641618, 102804426, 59729673, 99823712, 117076361, 107766303 >>,
       << 27871569, 52422607, 107084610, 71185991, 31105502, 71817128, 49345215, 88331397, 105509033, 117407498, 7429594, 126473508, 77971078, 43599837, 112438498, 91158023, 84688822, 60529707, 2882469, 131511937, 106031126, 78581388, 25995114, 34713772, 3942868, 104809610, 96118142, 81142579, 76985508, 11413030, 54544411, 91666436, 123308732, 121719894, 48413856, 4448823, 72960192, 15233976, 9346008, 25363915, 55279350, 107847727, 93036158, 106128736, 34845830, 114908163, 119667130, 101148759, 103836783, 127129911 >>,
       << 2585103, 32285817, 36922562, 109554749, 70825374, 84337676, 33806436, 75426728, 36508589, 25342915, 116984855, 100060003, 129011142, 63600573, 109112571, 62196238, 4553490, 2093223, 92748121, 56367745, 23182157, 108779565, 65365936, 124547683, 76559466, 44388430, 95633914, 88686570, 77363316, 45014479, 117611357, 95270980, 16658243, 40920425, 108890983, 24325939, 79714295, 128131676, 47700908, 34236666, 38263303, 82283077, 100508487, 51968830, 57411199, 77319841, 44198312, 39417556, 18547302, 112112988 >>,
       << 11347238, 131663778, 99573280, 100874434, 93509391, 63884837, 113087755, 93323316, 93705956, 130082005, 47476619, 113379197, 58401251, 17506100, 63706533, 46009159, 22623212, 67174597, 1040510, 129819292, 1608040, 15065401, 55687743, 129767546, 124851801, 99654773, 119318704, 133687409, 119176295, 124935410, 96428715, 116010262, 8970696, 87021537, 133254733, 59972380, 27473519, 36359866, 41075050, 61868638, 77840684, 88887568, 105113408, 38193828, 93565549, 100832629, 42805286, 78527518, 24712783, 31438475 >>,
       << 42016122, 90483941, 15776356, 109537058, 54935222, 95509174, 28569395, 73927501, 30595328, 110503079, 21784368, 56715392, 37379354, 122063886, 98285348, 69039857, 81341234, 65285294, 96426297, 12226750, 92187655, 128251714, 91739965, 114386034, 6198563, 7116333, 12146359, 59720986, 1712513, 62427793, 74649979, 129648384, 126962332, 13883460, 16837606, 91682530, 95576820, 83612610, 38100365, 85397096, 88062019, 45344236, 60192839, 54362971, 127780482, 10051862, 99007981, 99111196, 32132750, 5496767 >>,
       << 114948747, 36317175, 117300493, 134093384, 104446355, 127035239, 126152580, 76004622, 40498263, 75086395, 37828147, 12061098, 93798176, 123614752, 114512865, 38711031, 23317675, 83954976, 94705899, 119591611, 85510088, 113790858, 119393020, 107429946, 32913331, 42061050, 95782201, 47057352, 103866858, 20099327, 105652903, 133742059, 119050929, 109195903, 119713837, 72722091, 27111068, 85886828, 28624271, 64879943, 22680377, 90530251, 71789730, 108673121, 63333581, 95689428, 48211013, 115352791, 54409640, 88373640 >>,
       << 66027431, 77011219, 133351545, 74463328, 16736193, 88522598, 27933216, 6479738, 123252673, 18591988, 55640764, 118817630, 43716254, 50782232, 36764766, 85525373, 61249547, 127585431, 95425492, 63398160, 12865615, 111124054, 11111564, 45855668, 69478147, 75211270, 17434164, 118585585, 97812492, 97837777, 132150561, 8690503, 112178081, 70422146, 116139225, 132594577, 128866992, 62913729, 128820282, 5035739, 90615189, 119468039, 70026835, 106085170, 79794795, 37258201, 9795789, 125139236, 96842504, 125628961 >>,
       << 272336, 65450100, 97673105, 77424535, 16216350, 15568389, 132720596, 55904618, 16006842, 10209484, 40358836, 125228455, 53865433, 34600674, 34168961, 51247641, 95638719, 87192646, 10969062, 129900842, 13833969, 134131625, 78184991, 114925090, 67758116, 32362235, 8100125, 101770392, 77384890, 61401461, 48753362, 107406987, 40725845, 23147442, 98174157, 103004911, 40530217, 117193927, 123253840, 65695918, 28573034, 128797925, 98202977, 109163717, 103296353, 89994804, 69280545, 123110705, 73366106, 115155947 >>,
       << 87447515, 102729485, 45161836, 130200348, 95354755, 24793325, 32370017, 66711804, 134216232, 96853125, 89805802, 64807392, 130256735, 39244170, 75103926, 90555436, 112579462, 130364111, 97711715, 66515217, 61537646, 635100, 7584120, 62915390, 75204539, 75230324, 119098920, 16240296, 84895802, 19734247, 45719517, 32514305, 23163546, 44873591, 125013274, 12724752, 21048578, 11616030, 100792727, 87214868, 97586191, 103467703, 74481064, 111174198, 4133133, 73900467, 130045195, 21934466, 101327900, 22279754 >>,
       << 54516413, 64836671, 76739153, 130404491, 78591987, 8107128, 82477427, 54908412, 89368098, 54474448, 55288944, 97712234, 2621097, 19918252, 72630931, 57764322, 48397003, 122213902, 96492407, 113224408, 27282227, 73727650, 133244759, 28857853, 111259080, 76650519, 86783467, 133876706, 48453553, 61656163, 8479515, 55011443, 41263745, 54024116, 101734439, 110766433, 89742868, 71082586, 17931112, 130874554, 14551530, 103151150, 96271582, 156208, 111281068, 1861851, 25355327, 91652668, 133281447, 99995393 >>,
       << 63402650, 1292015, 111664668, 101604545, 100564408, 79688746, 113116117, 132050781, 2842057, 59997737, 6260337, 108816031, 33013177, 65420157, 69818333, 104248530, 8156510, 70830689, 84760327, 68735032, 100906800, 98405101, 55957373, 123352654, 95777003, 94630039, 102503891, 58336875, 100859270, 108391967, 126060036, 77851729, 30171639, 22041419, 4910282, 66935788, 107447794, 112830472, 106632655, 100993576, 94798133, 4714118, 76589871, 129372798, 119360088, 119469809, 69101949, 31484576, 36636396, 67727211 >>,
       << 36415941, 79707590, 20743424, 90246192, 93314121, 92820220, 58410754, 65995916, 96977187, 40865061, 72588295, 59090438, 116129454, 54944172, 125341869, 91820322, 23622643, 82636608, 55008578, 46655850, 7954437, 114410161, 63722811, 107165253, 38439562, 90355055, 115894590, 36107447, 108994740, 45676146, 53011652, 42501664, 59276156, 17882052, 57320432, 63201930, 53038447, 48378863, 90862950, 37067805, 12054396, 103805887, 80273307, 68428385, 21496269, 67396777, 13819442, 59961577, 133940656, 78648797 >>,
       << 36432901, 66895710, 63972066, 77496616, 46979557, 468741, 115307059, 123404815, 108241942, 5416782, 26015554, 41249306, 44807825, 102638201, 17767325, 101307010, 20020648, 8188640, 24951426, 58715330, 130858068, 24098958, 53311538, 82068284, 133103103, 131089996, 30302080, 7831280, 29085873, 16778200, 113435007, 99749502, 52202645, 89026911, 127780008, 121336661, 34318015, 46347162, 23062698, 127913567, 124339992, 49823902, 127835242, 59498908, 29887679, 32416546, 1356820, 82112746, 122207990, 96065967 >>,
       << 101862735, 4430199, 134096220, 133279377, 61934298, 101131145, 104055703, 110060889, 34616150, 104093833, 102085716, 5264340, 98306537, 51150012, 30480885, 44964468, 11615386, 58073398, 69114137, 46013806, 19681395, 86878614, 19929390, 36475405, 62409137, 53648445, 99942767, 64241397, 49405006, 16397602, 16796594, 45982726, 95038258, 74890807, 26857728, 64718137, 102013033, 84943303, 77142428, 79665561, 131995676, 3318289, 8301201, 96653122, 107180031, 48071544, 112818369, 112512477, 118076823, 28177866 >>,
       << 53611988, 97083668, 124037256, 102954283, 54786956, 80594945, 124916921, 28033523, 26054686, 18254014, 66111215, 58314316, 30943650, 29138583, 133266045, 34610990, 17383675, 20058642, 71509891, 126658121, 47640904, 93570163, 53720221, 21386369, 103794671, 127032854, 103452088, 69744293, 30987897, 62458631, 18765362, 120152988, 105565348, 111789888, 114737564, 109211870, 29409268, 66745463, 90485486, 23718135, 24996513, 45233869, 100786132, 77810053, 27903550, 13691162, 4743932, 31283148, 108704695, 30793278 >>,
       << 96295951, 63288368, 110669513, 102921214, 98428447, 93812955, 95882577, 118829183, 7141275, 926856, 72909523, 93003000, 78392196, 41901979, 19136082, 87909930, 27865789, 33686408, 125574863, 120274535, 4567341, 27435977, 99732307, 59830354, 1495259, 35849262, 26509837, 25647315, 31302468, 119036253, 102228715, 26394306, 91643839, 16614750, 84859928, 84120268, 72129432, 119082998, 108810016, 69073602, 28258484, 71588402, 37705888, 49275937, 53502363, 85176896, 102816627, 129958488, 11071555, 17164118 >>,
       << 48324739, 86660320, 65346013, 119568128, 73474164, 84011824, 123738079, 1696688, 36155867, 62376348, 29409858, 59040790, 13559701, 79516192, 70298520, 107501258, 95410561, 86129879, 84060492, 49886651, 101031195, 125526821, 92218755, 90936755, 15256771, 64091448, 127436720, 56501165, 76687558, 88412586, 51760045, 72525054, 2222983, 119943058, 131163399, 87583530, 84266398, 51829865, 39700583, 49597354, 113299973, 94760470, 47854288, 41226745, 40594384, 97697945, 111668983, 92766036, 19338017, 12865988 >>,
       << 49345025, 65695229, 89347103, 93513286, 72394272, 106240088, 29857789, 62218967, 83312172, 89753706, 21118080, 58394941, 38838001, 4042292, 43380355, 27683563, 95735957, 19524598, 84455026, 110583022, 60438539, 26604504, 86931877, 130153885, 132984412, 129961882, 80870850, 57535984, 70114635, 71044054, 48675339, 82777487, 27404336, 35309188, 97418945, 129057522, 17822302, 70621748, 133149995, 74637495, 28640008, 85316737, 107748499, 76794835, 5102440, 29655194, 80964194, 61312564, 82357224, 122162078 >>,
       << 81495501, 62914439, 122635449, 122982355, 90857150, 90211793, 69508892, 115763927, 29218239, 90961977, 28350393, 10778040, 93064660, 49968515, 3067849, 31946840, 22143355, 12697413, 79706929, 68425434, 50215002, 101678105, 78068296, 110632297, 90488606, 56452768, 129379446, 46364889, 107088005, 48694889, 104606265, 10830992, 91393593, 91932173, 97641280, 4006860, 17148566, 44509525, 1568110, 53166671, 58507103, 58304387, 117702362, 122340732, 98843455, 87154338, 70331177, 54329495, 85617015, 90072767 >>,
       << 103000448, 4942372, 54126308, 86735838, 61437178, 29951222, 132938229, 39951830, 66332051, 56042762, 63220744, 12565504, 116881161, 39975804, 111244777, 76268059, 77444441, 91072074, 71389374, 57520637, 33099853, 19102658, 75096683, 78326118, 48100262, 97194979, 82629508, 11948990, 119531291, 98074660, 130147, 31019187, 70831681, 44956105, 24856921, 41663806, 19681200, 114959670, 63042437, 51154893, 22668881, 20495577, 13846353, 43654901, 47307677, 75964485, 101921249, 53746280, 32482494, 121808536 >>,
       << 90866020, 59292856, 39588376, 27635192, 76874676, 90820354, 132310192, 55650985, 30581795, 80070380, 81029582, 34516913, 82555542, 45206796, 123071460, 80057445, 38793000, 969411, 26986166, 74669543, 75548770, 46689829, 43001358, 105746823, 99871264, 38385817, 55667895, 48626258, 58449103, 104514703, 88922266, 87633199, 49392282, 26626968, 9997397, 63072957, 7812519, 68927204, 65847258, 29152148, 4202542, 7190764, 20081256, 99097086, 114376648, 12219154, 2107242, 88877179, 19659052, 98824691 >>,
       << 108268758, 126823398, 62779379, 126166628, 27383624, 51025475, 90124650, 50471653, 29722157, 91656789, 99711026, 130590304, 22514329, 47100223, 98761482, 52414915, 88155778, 106666784, 61901792, 27499569, 96612124, 94553285, 110975201, 24949400, 22818604, 127114068, 97940535, 27448209, 38262927, 123228541, 67778896, 60668770, 35957159, 75736415, 28699384, 80314481, 131491568, 8766008, 57188096, 89594597, 52537781, 682953, 106964587, 12890030, 77881220, 16621842, 4480895, 80961227, 1392713, 40582568 >>,
       << 73647351, 69712324, 57819841, 53194565, 96636424, 130216212, 97610778, 3074304, 100366659, 59373245, 27900202, 131018333, 115273927, 100110952, 20703342, 55478943, 41545995, 40829944, 124013791, 101395427, 60032106, 103824048, 103185748, 74842554, 118993165, 76640968, 84281988, 92724383, 26535151, 89184131, 62951949, 69001070, 47969943, 82414746, 48730067, 84570714, 126090189, 37499513, 12262898, 65007530, 133106361, 57813680, 106697647, 7822156, 105614858, 109533820, 82726446, 90046043, 3115044, 80459517 >>,
       << 26551960, 66524861, 12982543, 123273233, 55678029, 39276900, 122848353, 125857306, 103503826, 94926546, 88172022, 88832782, 49089728, 85698101, 127451417, 75058196, 14420665, 1943334, 38327768, 46985532, 100828000, 65879752, 109335057, 33141686, 96069349, 36493821, 56165676, 58428877, 129032371, 77128000, 112124362, 40285056, 34217681, 122697361, 66271017, 106404469, 28643142, 92431206, 128902906, 129993935, 31381348, 72418770, 59120217, 103094450, 73699264, 118404611, 7644959, 99884872, 103480915, 105546019 >>,
       << 119703455, 126803469, 95501207, 43698864, 17551376, 67266361, 126618961, 76853073, 4025785, 88473762, 44527406, 52209498, 58618675, 46274315, 123264332, 132522036, 11794480, 74239289, 25686922, 59391620, 72789000, 107219509, 119981119, 40660309, 99341263, 60312070, 59397065, 12156219, 79646815, 70956235, 123797477, 101153403, 72443465, 67438617, 31727657, 131085680, 59735019, 36700350, 32952007, 109426131, 35436564, 47615106, 5824520, 81366836, 109979503, 54126880, 68197535, 42803559, 83076699, 28765790 >>,
       << 67560361, 5446125, 53025581, 21171858, 100248086, 43402003, 7752126, 20105410, 32177848, 6050375, 68652903, 115504255, 76591135, 86560287, 79415644, 111225987, 90337434, 52336123, 37637172, 52785317, 107671485, 81639259, 127815793, 85869828, 22199553, 35596918, 124867973, 29835439, 40019735, 103955451, 117422447, 31164601, 48093846, 33706811, 70919265, 54452182, 79841379, 44288714, 23730245, 133780975, 15045536, 25053710, 110091787, 13706710, 92077287, 47737121, 52194039, 4320951, 110400060, 31559219 >>,
       << 67699945, 60649423, 8522518, 685723, 69942603, 73269677, 6040719, 28128942, 44307617, 116471648, 41653312, 56318770, 83469706, 39022112, 51239068, 57333327, 92847, 121428163, 40219005, 78840228, 107693751, 7864921, 28445777, 64013724, 54004006, 34837154, 59229760, 37071562, 61680543, 57755581, 98603765, 122675825, 78227315, 16445117, 88190902, 99546276, 118291558, 10994925, 57180677, 10880197, 24999755, 23812817, 15541386, 109050518, 45369513, 5943124, 132206201, 101275161, 31908888, 97579582 >>,
       << 77115184, 109541516, 91345830, 54366290, 93784976, 42011449, 131403773, 47130264, 73987406, 105850994, 54864895, 95316148, 67472385, 95423038, 124311676, 94208693, 9412672, 85694478, 75568469, 121190665, 85742379, 5961208, 5691523, 105740604, 111205802, 40627426, 16458208, 42125035, 69945393, 80822940, 29744111, 28837659, 29081628, 50037289, 17585494, 113426385, 72988680, 55832409, 95918535, 95982142, 88786055, 53833750, 170384, 13477765, 109377042, 29987533, 69206005, 42116897, 42366285, 100557017 >>,
       << 43447, 102867166, 115777134, 3477862, 22461373, 78667822, 45464373, 105415190, 114700266, 64682252, 25907091, 106007636, 69613135, 1551787, 14217417, 133079313, 117570863, 118685724, 4183111, 9204640, 24744306, 114832281, 39500723, 108803168, 47489023, 114910591, 62504893, 12707317, 129266229, 72742951, 12434276, 122301965, 50302450, 75019197, 7354999, 51642540, 100351052, 122719423, 87788541, 108504232, 12162326, 80226958, 39621558, 81548742, 76263097, 103445001, 77631318, 15560636, 25460131, 122587398 >>,
       << 53844378, 83949472, 105281766, 97176771, 50154111, 4856271, 117720649, 47813944, 45102920, 16215399, 77253952, 12735770, 90173234, 109116188, 99280183, 108791440, 79606631, 29878371, 111845537, 124648260, 77361531, 55268742, 71438028, 58790343, 10936586, 67332514, 58129629, 106696835, 88619173, 66096209, 10308312, 64830809, 1045129, 71976665, 1539226, 86169176, 41767062, 81915723, 127227745, 19810958, 80187796, 114177649, 27381418, 94910096, 21868923, 100826178, 112149309, 127201499, 128614622, 114032754 >>,
       << 74960551, 121758599, 96017809, 128073418, 104879516, 113745850, 125595911, 132772049, 49075413, 2318287, 65819796, 123266777, 122376820, 94220134, 13611447, 80552456, 56715640, 11237964, 20629028, 129230053, 79321544, 29528335, 27854971, 109089541, 18857212, 9962414, 102328424, 26133972, 37506947, 77374841, 47380788, 21903444, 129079939, 18088407, 5649392, 75502517, 116975252, 126434773, 115374214, 103571658, 108497403, 35592724, 5549711, 89352139, 7001081, 126657147, 133147508, 110977089, 28614869, 64156138 >>,
       << 117142830, 90761044, 9803499, 125578639, 124677024, 63241333, 66575577, 48749952, 70081826, 74580942, 46809313, 51721722, 20736574, 96146603, 60259175, 34210302, 72598543, 926780, 52165042, 53610121, 14256177, 9166168, 92678139, 123230545, 120298854, 127138872, 131753690, 24335430, 121482534, 55635119, 105896877, 131041845, 99409227, 17623889, 96746125, 4405694, 87196767, 30810037, 123057528, 7992069, 133503331, 52120729, 79444680, 133766880, 111423146, 49740862, 126593157, 9855881, 57623191, 42681357 >>,
       << 65818579, 90432446, 12522836, 22551039, 14786421, 15821540, 74405920, 57931277, 6451347, 111596992, 86331544, 8519119, 72751701, 10988242, 120690916, 16299240, 89553480, 97960796, 17684484, 115894270, 89680884, 95355736, 86579801, 104678222, 30873075, 117413882, 91207281, 82487685, 113247048, 81698404, 124307783, 29749628, 26261988, 7957405, 24442342, 43559843, 47939516, 78345103, 117415901, 100064680, 68178370, 103211578, 66480906, 77954885, 96723105, 122846177, 18207714, 7995030, 57605045, 105767657 >>,
       << 20219017, 29683825, 15438005, 106127681, 38183458, 109520876, 88952793, 45747258, 80535052, 57777350, 74487014, 88329411, 92277906, 67765893, 94101910, 81242132, 133740295, 113588375, 109448975, 14153995, 113523832, 2706348, 118309323, 78205503, 94474881, 51929252, 84995505, 14460272, 76600814, 102382627, 54299304, 115451130, 73493995, 6496443, 129773312, 38682523, 48225799, 4139480, 46141360, 21914709, 11952590, 8737868, 18922251, 101271890, 6570385, 113084935, 29145695, 106381846, 56665722, 789974 >>,
       << 69641118, 16434846, 54351228, 105498271, 36787092, 104149475, 13853768, 126355889, 92480929, 119447979, 74732090, 103170393, 1789000, 33980250, 34240120, 100280941, 106870387, 108350348, 54635982, 112720720, 5704406, 117634158, 72627272, 94149608, 10116892, 92850740, 82031834, 67050233, 121740407, 13717972, 34447566, 5119205, 107970423, 103940954, 74062798, 112847612, 31686897, 36664946, 57022682, 75688462, 43712470, 35381415, 37646656, 75972484, 117478302, 47297914, 4004669, 110088997, 54215919, 1550868 >>,
       << 79272018, 91282082, 108925072, 114037315, 99348287, 44616284, 111217422, 121961188, 122369275, 67310493, 4661584, 55562234, 111091446, 17676868, 92920385, 126790729, 61301736, 35202050, 45698489, 53468955, 58008686, 79741572, 74826632, 29586765, 91839420, 82978451, 85587711, 73334155, 122749166, 111815506, 46759741, 76705243, 87759770, 5452137, 65379008, 34613622, 19013227, 81656535, 131909453, 36799764, 10492341, 40942997, 19203224, 89275671, 83035510, 88305232, 2157711, 38970906, 83254992, 48195802 >>,
       << 60975232, 124810771, 115346003, 133789962, 87314329, 59466854, 121829573, 57858370, 24043977, 42439116, 113812875, 25573119, 90527565, 102152537, 84168038, 71625830, 38608369, 60953552, 54524124, 101032299, 52416641, 81177526, 11485722, 117861583, 80607170, 108236143, 46358332, 26206158, 6025870, 12848155, 52445055, 125917016, 114981719, 129814263, 38344807, 66487310, 18654109, 70388660, 131588406, 84559148, 53801743, 16570894, 63003575, 132772001, 39391979, 90234050, 95589839, 50375248, 119472166, 69625801 >>,
       << 42972326, 78175156, 121686705, 1922557, 18085930, 129666004, 105000939, 129108059, 92124570, 51998700, 17378136, 81705083, 108265130, 59859815, 128488628, 52087817, 11381979, 16234935, 101811524, 52375741, 51935044, 18401994, 103176931, 96524069, 72496804, 53555221, 58436553, 1057366, 103078366, 25453181, 41398319, 80096323, 70074188, 17109366, 36247955, 108436339, 126329629, 53689859, 117592078, 73603879, 79791905, 123143358, 84735220, 133938808, 105508622, 90613432, 55440548, 64842846, 87304191, 6170365 >>,
       << 16768623, 53127944, 49603886, 50798580, 21126046, 112633791, 66791660, 100127971, 65910491, 110262554, 91780200, 39641527, 6013654, 21224800, 8443031, 120372625, 48844907, 110308159, 125460926, 66738469, 127754542, 17735111, 27686666, 11641635, 96207064, 125870937, 19799484, 43256950, 19858736, 36710751, 24066772, 128986452, 27256811, 45661243, 20316746, 45844895, 111105937, 99693112, 52382269, 111554034, 4542798, 92296, 69927287, 43087794, 100008963, 112329152, 70126144, 112432273, 83121196, 41459829 >>,
       << 80557939, 52409195, 117919681, 8391138, 60749118, 24126013, 14495580, 48582191, 128283954, 113981034, 7592070, 45564126, 103712005, 20159337, 1107926, 84011899, 48315768, 121895556, 98267638, 120405928, 30556252, 44353315, 26738600, 103017751, 11765072, 25289010, 96501477, 15975536, 69126897, 36533408, 49857437, 123284629, 55527069, 2235835, 44209592, 82224404, 128940277, 111309584, 83708413, 30861425, 38675508, 89104686, 20053961, 32507587, 20055217, 17028924, 97388570, 96345305, 95443276, 16586567 >>,
       << 889695, 81138852, 11435000, 118539964, 19714433, 123662416, 117867418, 77665387, 36355213, 122999432, 34647379, 119333773, 99880845, 30362840, 97379992, 14630115, 106411892, 109304972, 37200285, 121973501, 93730852, 85989974, 107210863, 10080400, 37720202, 115711733, 4156569, 108373505, 121245196, 72242484, 124317550, 106034433, 65159689, 68718631, 29856133, 35599800, 93236597, 121726590, 107422326, 115174804, 26418676, 91390719, 113122769, 85251763, 62488591, 117568133, 112001106, 64654483, 79422115, 102281840 >>,
       << 73013306, 20284382, 92499462, 117288956, 40766875, 6057571, 101512216, 19943076, 12974675, 124550061, 15402457, 57322256, 124897661, 71256685, 19766571, 30613187, 12445947, 29126690, 66046693, 83578562, 126207935, 75947039, 116164621, 91463440, 120957191, 100105057, 69396602, 10846182, 67410619, 14636346, 87663449, 2079379, 128864336, 5722327, 107913531, 91411177, 76082940, 51387450, 20213700, 115630635, 41705779, 21827138, 130650768, 54814507, 46144542, 133329140, 62164834, 69701720, 103663988, 82752215 >>,
       << 101310299, 108116755, 58414135, 108819487, 29131204, 91171779, 44626867, 48536068, 67636982, 63548253, 60620579, 130513824, 37881714, 104193475, 126723021, 116896016, 46550393, 116345534, 17112303, 55970337, 28616150, 102977826, 94257280, 40333457, 67413355, 70152714, 127553847, 71563076, 19287904, 26229053, 100527123, 101629046, 133162848, 66302269, 110590710, 84082879, 20011026, 42220497, 41717070, 39651627, 100374999, 24921469, 17214969, 85818087, 43208682, 27192391, 43880552, 15670605, 9074250, 120666612 >>,
       << 62537554, 130190827, 70650419, 91209446, 74772521, 101633295, 25040493, 74294692, 3387960, 44442000, 6182399, 132191694, 33491080, 33791371, 45152111, 49059716, 30923937, 74359161, 98813332, 70768627, 25056826, 68556323, 129142063, 63314136, 21318853, 955005, 132474428, 35164479, 59241121, 53245529, 63460170, 58404599, 50961250, 122820186, 50850210, 95105515, 5940582, 71440997, 17247526, 72522621, 73280457, 130173598, 66457090, 40161712, 43077569, 94860962, 93455362, 111104849, 67183214, 59961247 >>,
       << 10607284, 97033904, 89271765, 17365348, 7464593, 83989262, 63436403, 42064633, 27864566, 9697929, 91806853, 113011851, 110266692, 28876693, 96204947, 122313387, 52348398, 74550610, 48305998, 81091297, 25445292, 13787241, 49850841, 104305372, 100672075, 95207066, 18289061, 53167996, 17232830, 12788504, 88136352, 87891106, 4626030, 64527143, 112930398, 39665936, 95545888, 120591663, 126240868, 11032632, 34483834, 106079284, 128137014, 35343294, 29510147, 509040, 85304807, 109929505, 16345196, 2043499 >>,
       << 108081429, 52034833, 10954788, 37227024, 123745452, 38407192, 47710644, 19104097, 79306711, 105824461, 116402319, 80195408, 51264624, 125006857, 41056009, 47315402, 95002971, 61922800, 41860966, 36402657, 125033674, 27479964, 28659987, 9278140, 79880913, 106796593, 82185579, 114112428, 64266790, 12976798, 108820254, 16439239, 91741192, 114258651, 48643806, 30438117, 30478377, 109882420, 32620132, 119073137, 37128306, 105426817, 77930625, 125203247, 60521942, 22095950, 83513122, 58000317, 113011366, 82579351 >>,
       << 62733792, 3823919, 12379557, 3375649, 100664004, 6134838, 100168260, 27651781, 106276743, 84984077, 40606845, 30371675, 39526156, 40470393, 80497815, 80483705, 66616878, 48895058, 99172531, 95487770, 72845036, 94088765, 47774108, 109216044, 74027581, 96226213, 55479667, 84140945, 9236767, 98470410, 71227072, 70262031, 67993135, 12391019, 112456945, 125170308, 63909465, 68683959, 54152948, 7205793, 127242447, 95369036, 133677536, 124874261, 108581864, 118467371, 17560215, 15516055, 49171474, 76864823 >>,
       << 79290925, 20595225, 66993580, 81470757, 34242563, 29172274, 61249525, 58667231, 131215362, 123253711, 29472941, 69117979, 17121293, 65906837, 121201604, 38717255, 78298796, 116431926, 6044658, 127852866, 123456829, 28273783, 28774443, 15773925, 21498743, 22465246, 24993585, 30750861, 116896085, 80810071, 43150061, 35438669, 74725427, 5497186, 124739130, 118088726, 58917812, 1849530, 38901361, 60460919, 27748106, 92041461, 15791975, 131608595, 41902341, 98225342, 126406374, 117893975, 99026504, 117828370 >>,
       << 121215745, 70512681, 29305541, 107046128, 53196234, 74568088, 62186251, 41561050, 61717565, 63296898, 97047078, 115226277, 66621591, 34338038, 855998, 61611654, 2415757, 29686286, 54048046, 51673279, 55180948, 115377357, 133951589, 131803820, 102316883, 47412713, 53984612, 1680636, 500877, 90222527, 129785742, 60301444, 50683991, 129165106, 96240637, 18689791, 21750551, 114730295, 133207087, 73769322, 114420601, 20757457, 16125751, 116159547, 129795758, 24291448, 105688900, 92266656, 86572962, 72311958 >>,
       << 17053582, 16229908, 77984321, 111265629, 124544829, 28524843, 115255095, 114943836, 67571285, 55745736, 116126745, 128632503, 72099745, 22150359, 64526697, 74570966, 106050285, 35109898, 102348743, 59104648, 17939984, 57265561, 35088272, 95068418, 106091607, 28923078, 80355717, 27647573, 26516237, 114150503, 1488932, 121642914, 40180002, 96894802, 104588847, 48338942, 86415678, 78682392, 133989559, 112545220, 57832898, 76493396, 22293530, 88886691, 102071261, 4923642, 120813933, 53995297, 53806099, 88601536 >>,
       << 129737854, 53296865, 4356914, 119110759, 36663469, 72891042, 47286850, 132679199, 31086582, 12683673, 24387868, 27163597, 33873135, 87702135, 122694578, 35517218, 27593013, 134013888, 45640969, 69934297, 108900569, 97576853, 37194050, 77615164, 117880940, 134172919, 75486953, 12290632, 15094815, 129733067, 69907940, 88291620, 41511784, 131727577, 115455912, 107151046, 58115874, 47175405, 13163805, 20672246, 129771299, 35082941, 24335767, 15884898, 3904296, 117161094, 52183668, 100577595, 31546395, 62771288 >>,
       << 74803602, 91564587, 11857900, 63597689, 101621902, 94961812, 2547060, 41195409, 75042631, 95337716, 97420313, 125891808, 30269419, 105935985, 50501401, 33879275, 84009435, 127465301, 71004829, 12730212, 11162009, 92515934, 55132577, 97524131, 45372379, 77763631, 46924234, 124247542, 48510264, 99067857, 132186658, 110094473, 74153263, 108245319, 83942961, 95261050, 49965553, 76868659, 125097744, 34629378, 22403611, 9831649, 83572661, 33117410, 67060632, 77015244, 101294860, 26485662, 123667688, 14012503 >>,
       << 27994299, 102416498, 114510918, 55044458, 25960560, 122083096, 92522652, 52865282, 45158076, 77336330, 66645106, 23792252, 65613832, 53653415, 61903361, 57400859, 69748490, 66084903, 63919977, 65513822, 49138081, 76229768, 28131997, 48436498, 105805579, 75027630, 57062040, 9650604, 28000320, 111863649, 104093614, 41419377, 11985487, 65166233, 34472300, 134005631, 79942132, 9794370, 78493777, 46445508, 29535794, 103942203, 109256665, 133664273, 74544238, 3152349, 128840040, 73514512, 87557905, 73070826 >>,
       << 107300007, 39967372, 24045937, 58029440, 105578732, 65953095, 114751502, 17485523, 25768275, 26908507, 81578288, 81461049, 1742959, 91211260, 108905770, 65767828, 114021298, 54498076, 15432554, 48763910, 116217323, 3700169, 4450375, 12613361, 10065776, 11005524, 30057232, 81844569, 14262277, 44870634, 41332114, 70556892, 129790875, 29877, 41314590, 37991516, 24619380, 100580586, 26683779, 55391407, 130435484, 33703984, 67027173, 83010254, 20976064, 101755920, 10010731, 35104446, 133254429, 78520871 >>,
       << 81028434, 1713460, 11681090, 340347, 115965024, 97458476, 70407193, 127608977, 52852261, 13052513, 107404781, 125328371, 51603147, 104332458, 109960923, 121793295, 110503355, 33566415, 110799223, 61776297, 94494076, 81282269, 2489493, 41857968, 112641644, 84401551, 131636775, 107472408, 88405689, 80904666, 76596285, 128274577, 12020872, 45986623, 131699927, 121565854, 64586588, 30087822, 71177751, 88782416, 123767203, 3591830, 51193370, 60960265, 82288469, 125977598, 76812248, 51122198, 61980395, 89430174 >>,
       << 31026634, 51956285, 60678573, 24361488, 131239206, 4908223, 78387626, 90675418, 52935936, 15860705, 6047114, 107503500, 24323666, 102230348, 25994156, 61481011, 24320824, 58028820, 41010582, 30027322, 90546870, 23280202, 7668509, 48832895, 68305711, 107164620, 51936075, 76183837, 75954353, 58898994, 131656288, 21237474, 120232930, 35830413, 122295371, 48730705, 83275373, 132094238, 62944417, 13899361, 89197484, 113313337, 101055410, 86651529, 48860094, 48574991, 122809950, 91539726, 59583464, 82954945 >>,
       << 26235439, 21066250, 103108847, 117634281, 65618063, 62666942, 954692, 15910839, 15519799, 91441265, 45049216, 41373213, 90976662, 83023930, 12868114, 111875418, 129528592, 62618582, 90721435, 66993101, 27595424, 83933108, 108498185, 24546715, 98000073, 112299037, 114091464, 55527054, 617717, 109676859, 129709595, 78683611, 56909730, 68179443, 45678549, 54532784, 68234430, 74064654, 92322998, 71946170, 116431700, 86013558, 92162904, 73859615, 56385000, 101243751, 8433775, 4688680, 124540267, 101493793 >>,
       << 70295929, 46039686, 90402386, 81195046, 63657152, 26906165, 126401415, 46542534, 67236970, 50801709, 132380298, 129953166, 64270076, 115694665, 111394449, 109771065, 123538356, 111480214, 79344365, 39371830, 111303713, 28526385, 127358216, 93531111, 122917363, 26111698, 133259329, 114809013, 55126177, 36749707, 36445736, 118609290, 66596719, 6853204, 22577599, 51362281, 26946163, 20183757, 65766986, 53098323, 112696870, 66141777, 88295523, 56948190, 118785482, 107632241, 102705430, 117374035, 47063469, 79796198 >>,
       << 52842605, 108511712, 117021428, 107172342, 35411706, 98697259, 44933242, 69557343, 59653046, 88023025, 99511247, 51975277, 51675284, 83083524, 34800368, 109959857, 78298255, 84961599, 35578130, 130519621, 59407278, 99936045, 10510156, 46824602, 47457136, 113005863, 84336667, 108602075, 99089823, 32026149, 36920106, 114577482, 59505755, 121752176, 33922400, 115901621, 42911592, 86942819, 4842428, 96220838, 85701525, 17409172, 33982285, 3156518, 103972138, 48928382, 32391775, 59415979, 66458577, 22770448 >>,
       << 80599864, 86899734, 746268, 75048942, 97304503, 36627167, 91164179, 111635544, 100399848, 70359390, 82026012, 53467481, 42254501, 117909598, 30466171, 86125202, 83717431, 34721892, 44663117, 117779984, 3621940, 31812739, 59180122, 108008968, 109352765, 46895356, 37535023, 74352009, 116353294, 126412834, 4367194, 103730472, 129900934, 64698237, 70461229, 978632, 50277625, 30812641, 71416682, 28979243, 26671969, 97898028, 71629042, 49912011, 124139702, 54078145, 77892707, 25298555, 25035590, 96853602 >>,
       << 81491981, 16222310, 33242329, 54637585, 80642791, 50972519, 40660436, 130998901, 99365802, 70445740, 5757856, 93499751, 123319696, 37137544, 108907275, 104797629, 3915876, 63715648, 29717276, 61551989, 28055787, 7430638, 129867774, 107767606, 117504073, 36887920, 11725411, 47210837, 175550, 96866372, 118099683, 51851507, 29316293, 23713307, 108823447, 132799748, 94828028, 34570168, 112532307, 3934470, 42174709, 13872713, 6159192, 107664843, 99065371, 118044428, 18945147, 54708663, 48447788, 69326850 >>,
       << 30931948, 116682087, 71533086, 60660458, 84777249, 78037663, 57966121, 27645557, 27124192, 119568219, 39104517, 124087681, 52958045, 62717139, 37732986, 86935346, 57316498, 35766054, 92832622, 131996383, 133923041, 105855190, 128032555, 120904065, 52894626, 115933112, 57966437, 100068307, 5012055, 33237682, 29314563, 114187685, 115039587, 127727409, 18319454, 121256181, 65188533, 26382643, 110358658, 105198564, 76554615, 83125218, 63691283, 35494726, 14959821, 45053446, 79810596, 19681231, 105033369, 7205577 >>,
       << 95121745, 128168149, 101724407, 77251169, 38074502, 109811812, 109483613, 9370518, 7163510, 117725829, 11916915, 2838477, 24030243, 84327027, 65663746, 58547200, 6029145, 64818938, 107937094, 71580988, 14787439, 91544753, 117286486, 80037318, 44009714, 15432983, 52578474, 40135086, 131097597, 69491000, 35214814, 79443352, 118266248, 61939315, 63857650, 75937903, 85073580, 62992763, 27136756, 69574394, 26348589, 133660048, 31683303, 115835547, 112008290, 2916275, 57326566, 11703122, 35377880, 33770677 >>,
       << 28851827, 119379485, 43141882, 60020451, 115724004, 87952978, 49822262, 36183976, 94732819, 127034444, 63492827, 70881042, 79194111, 28235850, 114757903, 45821057, 3077195, 126948104, 108523345, 122310571, 46162622, 89748903, 101656666, 103150888, 86077458, 92107985, 24618684, 55015092, 4255282, 24928189, 102076117, 62725605, 3891417, 97468802, 54155199, 115523534, 70847814, 63132152, 44844846, 58077776, 101497769, 63142096, 8115148, 64543341, 11434872, 85430781, 113566795, 122715606, 93898495, 72712656 >>,
       << 91294907, 126477778, 16072589, 126357893, 21464176, 80492280, 24472376, 32098894, 118520455, 96472944, 53569894, 123807871, 12730930, 115789012, 29316023, 76502138, 14735413, 17096116, 25179681, 66033009, 61971106, 34031389, 48843914, 80291952, 86517797, 78953537, 69916334, 129572796, 39942639, 128842772, 90217360, 13751148, 93936667, 98840530, 129658611, 27796680, 122034340, 122591184, 33347800, 66871217, 55193808, 125516941, 67182505, 59846915, 1205484, 44891281, 123032881, 93069737, 67783212, 104488695 >>,
       << 131427510, 1571391, 65669891, 77682486, 8876915, 101803427, 6022363, 84284505, 107729128, 101178091, 54286033, 113416967, 86057708, 48770050, 15986076, 118976995, 4021494, 109880009, 57353357, 35880174, 5480001, 66566352, 4806688, 129603044, 61078287, 70828077, 27512612, 102186913, 72187923, 91366081, 86635845, 40451976, 59239337, 71257274, 98079749, 36091766, 68758442, 130054996, 26343945, 108116489, 1426740, 30601377, 34132267, 69463662, 112934159, 103182568, 47146553, 62067664, 28597332, 58097419 >>,
       << 124781762, 116241829, 44099012, 88574862, 38218265, 92623643, 91052419, 971584, 116497858, 39064606, 117794969, 35208012, 83240636, 17353843, 64318324, 24790387, 68997675, 7751842, 82455201, 1327534, 25386238, 15795290, 116349500, 60624300, 74367496, 116653320, 109946818, 67920891, 32864301, 106281740, 89015917, 105478365, 52339589, 107855839, 132342457, 34403873, 32977898, 99234834, 127268355, 11100757, 57448226, 66095236, 99885615, 69693550, 43704248, 100141543, 83775341, 67454578, 111216781, 35833447 >>,
       << 127260596, 35043234, 133391916, 35856430, 119287010, 5589634, 73930599, 75426099, 88448010, 76844475, 120930182, 42339082, 133750047, 99647847, 78869512, 28938963, 3215183, 26830523, 133660479, 24990046, 130421749, 83968840, 4519690, 61896872, 84065033, 119113503, 49894443, 58480515, 681674, 113379306, 95730249, 110709331, 45939770, 20738663, 56817791, 83122888, 83885343, 104855977, 7259175, 16669562, 99752919, 48533538, 21334398, 27745842, 111857729, 122417426, 87103763, 5068618, 120652733, 17492407 >>,
       << 81477100, 127182169, 80277853, 88368477, 83543910, 53983101, 51150027, 26284346, 29386282, 2862969, 128767782, 80583948, 110396889, 119659518, 22163704, 122172290, 33002489, 48078997, 114042946, 129429754, 53626772, 47328422, 35532425, 130064109, 431784, 131328222, 32859878, 3939506, 59078199, 80160480, 86257313, 79613742, 15749033, 107809837, 47408330, 36933833, 108057919, 106682981, 112955989, 8069355, 107952736, 24159266, 91619347, 62130890, 27981761, 124069718, 21924788, 3456913, 15767228, 19591693 >>,
       << 116283797, 130819855, 84282757, 81773219, 47953659, 28857058, 12538351, 74950694, 131049141, 123666259, 43803022, 587760, 2951669, 39219254, 17182935, 26907690, 10520801, 89161003, 127153952, 71363574, 18794710, 93923326, 5232080, 101745562, 133776198, 92995147, 114665351, 51607984, 125262766, 69414571, 16953735, 108414064, 121945614, 7444588, 40393690, 70913332, 117371563, 16702843, 104926340, 93028757, 4366461, 76049839, 31878567, 122144522, 129882977, 7504883, 122076852, 128947821, 46518542, 39905846 >>,
       << 71227559, 38639267, 95135748, 60168124, 29194304, 122838864, 69283902, 48172834, 59520866, 101533989, 110669845, 65151093, 80531046, 60004839, 118779517, 27457394, 78774100, 108897359, 70522721, 126321986, 100457829, 20181102, 36358944, 111538649, 96192514, 44225842, 85642285, 91255856, 43945212, 31769627, 70634321, 111382892, 14089904, 50297789, 115161669, 11360955, 71911727, 21047224, 65232435, 19507157, 115368574, 91065556, 25205271, 102634787, 69151638, 116815028, 18533215, 58598223, 125063763, 36841130 >>,
       << 114347037, 17650185, 78769907, 47652099, 116510839, 128404651, 13215963, 67705230, 46076297, 24785437, 116879847, 48631981, 49006878, 86774617, 62684768, 92014457, 56210748, 103885222, 70849046, 105151869, 70591618, 88769374, 97149134, 10638875, 45170101, 121502437, 45425692, 79423157, 5505434, 32705956, 7199117, 125743253, 68894230, 16634072, 77200361, 56803883, 97701221, 97538674, 114406110, 111477088, 83292248, 44069691, 113409423, 40712450, 35138440, 99554826, 67351525, 60865408, 52033611, 13866583 >>,
       << 90624766, 107267778, 45443998, 1998899, 110670189, 95107674, 102301695, 39482988, 68786418, 74411183, 37812478, 78544699, 99247435, 15452308, 118752517, 95696874, 113455151, 43666420, 98931111, 4086791, 68507549, 76787117, 18284520, 87833031, 34266814, 38669045, 54656395, 95542270, 38987676, 5512465, 31853502, 123138059, 44618828, 3591959, 59541630, 125195144, 114175494, 55428338, 79948092, 124860181, 48467615, 46529227, 105207142, 47284472, 80709734, 93652984, 107363894, 103829492, 125380244, 28230024 >>,
       << 49427999, 115553774, 44646354, 68223341, 68555683, 10442542, 115266572, 8321907, 68154367, 101553464, 95536929, 17999177, 89126902, 20474029, 59946563, 58873168, 104148148, 44256334, 40268684, 59999099, 103030783, 112254913, 60669901, 84233088, 66659617, 125328721, 66190847, 36441374, 49942937, 77097872, 117290159, 24148408, 49652144, 38100633, 118028919, 95031437, 15766820, 16937073, 29101773, 69030109, 60045975, 19915865, 114289869, 38716185, 98872938, 78758242, 109016191, 108906995, 33328870, 64763744 >>,
       << 80011900, 63073898, 82637178, 5172413, 2285307, 66231055, 8338171, 95387847, 38255107, 117328552, 44417200, 119817146, 48880498, 80509888, 131972636, 38145817, 73473357, 111686301, 41679917, 76395473, 92340315, 98946865, 55841913, 61987802, 120311186, 35588047, 123751831, 96586809, 113474629, 119804283, 14163029, 58569514, 57226620, 17793490, 26505045, 90965314, 75650461, 45757391, 105775933, 56609483, 88448278, 113474956, 65575956, 15758887, 20674632, 44277370, 48857090, 78668146, 29661697, 46104604 >>,
       << 121015788, 4009379, 124839830, 22650047, 104223184, 60452086, 57837879, 59961970, 35367363, 83760622, 98547696, 106197736, 2794625, 50412729, 40416426, 16632919, 104990268, 20785579, 122308129, 104127212, 132302441, 20541150, 65876620, 19800510, 91206312, 64783604, 53324810, 48378359, 26487117, 108081415, 8422659, 126421530, 37987212, 109660695, 49367740, 127296873, 15190188, 93070702, 84237070, 27106379, 37085033, 13853815, 66630564, 121655223, 124673351, 85492598, 109940955, 6633753, 7500377, 45497773 >>,
       << 37972567, 128900327, 48927331, 45149499, 74582694, 32300789, 106073040, 38894962, 47404655, 47734052, 83548795, 129308838, 45125593, 119149126, 111505341, 48792241, 123967800, 58403702, 107564787, 25143995, 128610014, 16512272, 56903306, 133157773, 74926185, 128353948, 130172520, 89061770, 28815153, 27318317, 50064794, 106613434, 130203072, 124526199, 88318907, 64914988, 93865902, 130263642, 115513544, 102581246, 55648320, 55668310, 68313420, 7243531, 75227790, 110108490, 105001107, 82243450, 47797801, 101821271 >>,
       << 1044012, 40469625, 132675883, 107848358, 99833572, 77917307, 12302103, 4022410, 67476898, 56019147, 101889017, 96306503, 6820288, 39420164, 26967434, 10664632, 63572140, 11917786, 49735290, 122234459, 44242051, 91334162, 63290256, 75048570, 43091943, 102805238, 21297075, 12547977, 83986371, 96394807, 77723491, 61309534, 78258458, 31073228, 29939617, 52474976, 74623447, 51501427, 119073528, 6204328, 104479962, 125913602, 82686518, 91489452, 129590782, 32557172, 116815119, 9202924, 89688266, 91264090 >>,
       << 56402848, 4838121, 70264613, 77276356, 128267093, 129321158, 118561644, 69478250, 131979522, 67938514, 73326051, 47011184, 86735493, 91162931, 3280789, 131468783, 11810502, 4484473, 49466458, 49902895, 106039424, 102337221, 74070461, 26427945, 80157144, 10506415, 12460053, 14499120, 49583256, 112906505, 27462187, 23248060, 5866720, 21711516, 54478604, 38256813, 6507895, 4426273, 82019001, 95047958, 25482497, 92069659, 90981614, 98457793, 31858513, 94974458, 29143166, 126222513, 76593214, 58173867 >>,
       << 32614072, 67078561, 78844260, 5712965, 24822356, 122090761, 327349, 89347323, 89806586, 119383142, 31702781, 72926289, 75231220, 85400258, 60068638, 69626784, 22757919, 126652811, 87896947, 133450398, 127783427, 8426714, 75107929, 71443530, 82535615, 28354172, 70895594, 39883361, 38027448, 127854679, 126047671, 60370420, 69757399, 13333146, 101024416, 101458000, 55326443, 103740214, 60774562, 58019225, 54248213, 33348522, 100358782, 118376033, 36637295, 118202608, 113188968, 107962694, 18134771, 99206797 >>,
       << 1060607, 72971173, 31217113, 40128100, 68787071, 93866442, 12442660, 24910031, 39452788, 25011193, 99704694, 102800690, 54325643, 58379988, 39205269, 64523112, 37325155, 19984925, 97701207, 109544760, 55435742, 41198679, 36884896, 113847175, 4024663, 34582161, 62156233, 87005856, 75001568, 26054934, 102877336, 91834991, 102674388, 22341047, 102223638, 66424984, 80432789, 110116379, 58263103, 54554819, 32160967, 59370312, 79709660, 105346901, 87403242, 43924329, 69562789, 12472097, 91684044, 93020476 >>,
       << 73774939, 63669065, 59542582, 110701280, 114720930, 40581094, 36591263, 81790125, 76031434, 22651219, 41755146, 52099344, 70662214, 59842877, 89087206, 11853048, 41064636, 125126358, 127489741, 34526686, 51542588, 109447505, 81854015, 29155667, 131903554, 106457413, 76374806, 82759256, 94373607, 44957494, 33463349, 12328094, 108766510, 43894090, 44329591, 108459497, 58674942, 54140124, 41735323, 87723966, 19350536, 26304554, 82550617, 37466710, 1373974, 126372484, 20481130, 84101535, 50849013, 106332485 >>,
       << 106558946, 78294032, 101871845, 1491050, 113667727, 74560540, 125995914, 75879488, 108072632, 50335858, 36006451, 102766811, 128198136, 79074362, 52157137, 52408380, 56143204, 89613408, 133680814, 108423904, 69707411, 8573349, 128679475, 120443559, 16339021, 88756599, 132386071, 72178869, 24435908, 112713657, 18670383, 77381687, 104891462, 106122025, 19581571, 32613999, 89253318, 103630979, 87231652, 84576571, 130831865, 118249068, 86651247, 18307619, 35740795, 51500505, 75186749, 65853303, 18437610, 24929441 >>,
       << 121241009, 7040058, 30407887, 62775027, 27888933, 30924274, 65225840, 94892277, 74893109, 103822502, 36217502, 7144913, 131700939, 51916238, 90662721, 95603094, 8633130, 27347214, 69079333, 55522348, 66027043, 123469239, 40372913, 94871008, 118547899, 132789475, 69904163, 129340422, 43859928, 66541443, 67302548, 32830668, 6906543, 124586574, 35634182, 105659361, 44251904, 44004355, 78399481, 51679484, 92138601, 107385314, 122589576, 119383083, 43694820, 90701591, 104093589, 60311494, 88931640, 53605819 >>,
       << 87473200, 109984175, 89400361, 122950868, 106139968, 131653885, 49907517, 110820182, 107527441, 61790456, 67433092, 51723891, 75379690, 90865586, 285745, 7262753, 119009837, 47320034, 45274881, 9006526, 114048771, 98617908, 17685156, 123019137, 53096404, 85523717, 100476854, 64287273, 87464128, 56955169, 35049385, 85784940, 34285684, 126250449, 80752682, 35429139, 28834736, 129938223, 55597155, 122874779, 30090457, 22227639, 62665203, 4888339, 49344483, 55175143, 14411079, 34273845, 129134743, 58303249 >>,
       << 47664965, 25888304, 118488797, 33730309, 107325343, 33983232, 23833256, 5678881, 8247914, 39170012, 20256883, 11781649, 131625373, 91938818, 68464673, 57887270, 59468763, 33562485, 61191619, 96013841, 13388485, 116159923, 49480527, 18426489, 6806070, 33495416, 43727750, 11116191, 84768182, 77099880, 12440409, 76725451, 130326936, 70824184, 46654278, 90015785, 126709117, 88234354, 2912803, 107973672, 45678510, 54874638, 50206313, 84201426, 13593802, 31599206, 30037673, 42493177, 117994035, 114382706 >>,
       << 73461408, 42883169, 6665531, 72937007, 11756221, 84007943, 35314199, 132726692, 25170784, 122465771, 24914792, 111797417, 24938316, 95237201, 75518225, 67203389, 116505227, 124705503, 63859894, 120667479, 56816274, 55130817, 95323780, 133560499, 27489392, 24986881, 114649914, 65762459, 90143068, 79328563, 92857083, 96189079, 6391511, 104611369, 37466772, 17294855, 27810887, 27441517, 73546925, 12856522, 209894, 53983945, 5443504, 123492760, 131762017, 99855959, 107427925, 67834548, 82624794, 130264046 >>,
       << 10391169, 98875322, 110524797, 65909702, 5800590, 5121791, 48805644, 20280473, 17033524, 80951928, 10941636, 70966932, 35872541, 46918723, 61623125, 120820179, 112554013, 87820518, 104489444, 111864923, 123252635, 39657594, 77897123, 111653500, 102894296, 54550003, 48566617, 82964619, 80342460, 2809123, 44795481, 113715258, 17811432, 63495929, 2542831, 94394051, 24184736, 47157019, 82734671, 83273594, 57608193, 12842289, 128510570, 15175225, 107612176, 38913989, 28933153, 42483939, 121274562, 131548404 >>,
       << 67618917, 110277455, 26003419, 6005870, 41890862, 126456763, 116413310, 837395, 84223122, 64958696, 64308392, 98190100, 120373153, 99591173, 96575633, 49161322, 16576253, 29638669, 5388639, 57459510, 10309359, 1454855, 79904984, 100820413, 20554468, 120409764, 119379257, 131312982, 18781578, 14594159, 53882171, 73787492, 78876266, 61173002, 38587692, 45520240, 107854182, 125609334, 27000081, 110475428, 61726937, 14794966, 37918686, 133995265, 59996845, 32105788, 129711587, 111987623, 20803423, 5868959 >>,
       << 38039789, 32994627, 11097739, 81817667, 16946190, 59521496, 37849912, 33408234, 107354039, 11675412, 24107548, 55534969, 57040531, 55194831, 47162770, 53437908, 114876115, 5803003, 23559749, 29751206, 27010823, 53916091, 11602842, 121376873, 55542271, 129925686, 47755049, 45600819, 68476884, 2975695, 56172795, 102385969, 19534824, 33627810, 60893128, 43736624, 44527653, 45415535, 20104627, 56503837, 61324458, 126188360, 18635581, 120023855, 7266405, 90523437, 32474554, 54382674, 84430557, 119674852 >>,
       << 63494290, 100312952, 7709878, 19323782, 61028078, 97176753, 42155837, 15130984, 1035664, 1033963, 119354368, 128871081, 47814619, 121255036, 100438658, 113475548, 113008550, 123145433, 91963937, 123923665, 58602595, 73800844, 65421510, 5592757, 57212446, 77718413, 367806, 42843211, 62056959, 128437307, 10202604, 103696804, 9529189, 130388664, 23868034, 11170819, 93660389, 70135478, 12255362, 114003478, 51414988, 60886528, 116702376, 92362741, 80373373, 27193777, 108742253, 24189826, 130437991, 32336803 >>,
       << 48986173, 107298769, 106802522, 25182374, 77087899, 107838959, 30821253, 102037777, 93450667, 123351912, 31050794, 2241168, 84509364, 116103565, 49737790, 36593570, 71098507, 37832768, 98526011, 78216942, 94068225, 42905617, 129965401, 10992519, 116886570, 116853820, 56184000, 44405540, 63495769, 109749766, 7524922, 120310688, 59372702, 78071993, 39835820, 25279301, 19499181, 115519342, 14532155, 94793112, 70868705, 30494554, 4303988, 19851561, 36427984, 23707893, 53142814, 91724950, 35576654, 55333251 >>,
       << 100646676, 70909990, 105242980, 44872746, 84299475, 124668543, 91819533, 44415010, 99215834, 14813451, 76978840, 3295022, 19150788, 96736640, 4633367, 40880997, 9237399, 114916412, 103993910, 87569763, 121590351, 8696402, 43351495, 95307319, 40907084, 73064515, 67702677, 4399274, 104563377, 42421244, 13223970, 6697945, 81442206, 29710110, 25549868, 38175976, 52526204, 103977051, 48992789, 97093774, 33260898, 30101068, 131603329, 55921495, 27257300, 102536030, 31959392, 874185, 42373772, 64692130 >>,
       << 95115846, 103649110, 49432993, 93939344, 40621672, 25972175, 62473285, 94027199, 116837914, 7104842, 388983, 77529382, 110009111, 72512371, 120756796, 37823677, 16041432, 54441452, 103491113, 132990153, 35372671, 31311284, 60510345, 124698489, 60260178, 4429834, 85870825, 86806616, 19692749, 12870422, 105534021, 62065244, 1439350, 111193260, 129742494, 100219157, 36178992, 59168024, 8252735, 14941000, 109912923, 24687494, 45769457, 94457561, 93961943, 117282662, 83536989, 22765606, 74061255, 120597670 >>,
       << 91262887, 112028078, 108044353, 30061384, 115777339, 28476907, 123537449, 122294040, 84233190, 110025855, 75886368, 99972081, 63176382, 12419779, 60274604, 86160238, 112819076, 113662263, 72353670, 50212465, 51094305, 71026158, 14554667, 60936639, 50813647, 81219190, 59653046, 50328392, 4940572, 47594407, 81108640, 12669314, 66247278, 127753767, 99253568, 31776674, 129905632, 92532680, 103915483, 75538332, 32075322, 4097211, 102471698, 94146341, 9286441, 131671849, 7677962, 92023868, 46595198, 96785593 >>,
       << 48732264, 119786632, 110770857, 79143084, 11269218, 103945180, 50791205, 81413200, 103223911, 73577652, 25394597, 33198583, 96297790, 87303268, 9883265, 65515175, 79035184, 28438367, 133550065, 119368481, 50438069, 38590604, 86380268, 67050835, 3748682, 69676741, 80820300, 95749281, 109605069, 34587908, 96996830, 40262298, 5792887, 51768729, 47027948, 94517111, 96284505, 107566564, 84487435, 39730498, 124564307, 133246828, 116784641, 47639677, 111136931, 20030929, 131414843, 99327938, 44835291, 76629448 >>,
       << 27196786, 125009816, 112868638, 49473772, 62691030, 2879541, 89113435, 66768350, 114419525, 126231367, 132938545, 51297687, 116098915, 49482210, 900128, 77383138, 35025422, 52607658, 24149339, 116681977, 1657584, 62944605, 72207079, 118210414, 86977450, 42995027, 57093353, 19757508, 87584175, 126405182, 96802952, 24466254, 60420361, 14852459, 77976031, 88803554, 109894216, 21490296, 55119183, 3498968, 102017141, 17269849, 131290862, 125134141, 111426853, 84769226, 88268023, 51408743, 105714699, 99269694 >>,
       << 109935377, 128776113, 8704674, 16278067, 75311312, 58533693, 68790977, 115526697, 116113438, 2679974, 99254525, 15775968, 3541945, 132856669, 81384788, 118937194, 126069490, 105756516, 29565470, 58519640, 112533148, 433223, 78871038, 87154693, 9127237, 79130379, 37357912, 113322301, 76741851, 468173, 109331305, 74591120, 9025220, 87735512, 62727108, 6571117, 6575212, 117085816, 26347568, 133501499, 18244752, 67054390, 92649787, 54521433, 89492594, 22560448, 70783969, 3237762, 46268308, 124697222 >>,
       << 113280942, 107678363, 89701351, 89520328, 92652495, 70314360, 61986072, 62403072, 110498854, 65893857, 114237696, 66540309, 105346793, 6677667, 11358421, 37249475, 90063394, 79009893, 62296606, 18002846, 93638427, 51767398, 67984025, 17373433, 118237938, 128694402, 13496493, 14117184, 75587150, 45077232, 57284455, 86903233, 88051920, 103737996, 98683479, 80516945, 121971760, 53852476, 41058368, 58252389, 3781100, 129404744, 65881724, 60344041, 27149608, 85327566, 42672495, 129084581, 79809367, 48589096 >>,
       << 52391012, 93330181, 107126805, 75555285, 92052784, 15041588, 132941208, 79569937, 109714329, 22446387, 20038222, 4955162, 47526653, 116141377, 109515567, 121007852, 113320175, 16123098, 130316606, 27467964, 49445129, 53857307, 32233478, 114820958, 124481042, 97889406, 111925310, 76360986, 125325922, 99123464, 88972344, 61681591, 106982344, 37890884, 98060411, 71222211, 105016748, 89955279, 81847506, 23448916, 47205157, 6024199, 6537462, 66570530, 47905587, 14205691, 56964115, 62676402, 100261656, 35659479 >>,
       << 118015059, 108779923, 96969547, 70456417, 55843346, 85760051, 63469372, 25385501, 48735279, 72657410, 16193055, 73953529, 17544632, 98089385, 15167361, 65775327, 97568011, 66657561, 35183868, 68396283, 60300616, 126684397, 131584042, 37869930, 66991570, 60549218, 81498722, 32045565, 50172721, 115872365, 132191656, 82439044, 124622211, 83611124, 89478632, 91012249, 126852308, 44706902, 87859643, 73828623, 41190741, 29012524, 72081225, 31567549, 50042235, 51892410, 81122599, 77670307, 79222640, 63038815 >>,
       << 100894943, 16669270, 23816097, 47065854, 19407255, 103753159, 4844793, 113058759, 10771474, 82092132, 26863265, 8265396, 93553552, 50998192, 119730102, 34114482, 57147996, 85954647, 77568436, 16520687, 19958692, 51207235, 108697023, 65887818, 15023785, 77488011, 11951646, 76315836, 56402140, 129139519, 78553358, 77201502, 25387160, 28295629, 49601627, 32074747, 91032345, 5042790, 28573279, 84169763, 10241050, 32925713, 102630319, 74506012, 64208442, 74733958, 29091632, 5315767, 43075398, 86086459 >>,
       << 52789827, 71184974, 17797899, 69202605, 107084590, 99058549, 97133095, 105082724, 64081087, 50185491, 31157679, 31597770, 44214545, 113159323, 44490871, 23882168, 56844655, 92549289, 23040424, 7148877, 18220251, 80292120, 90669013, 37146876, 104092832, 73666820, 128326173, 65895494, 34035081, 64431822, 67670003, 16628246, 15265438, 25004300, 74964698, 21158565, 54120743, 79307951, 114688193, 89181416, 79085617, 26436579, 38974523, 100127578, 49444446, 16404158, 60674149, 30971850, 76582679, 130668273 >>,
       << 22173081, 107460559, 17117416, 18447541, 77713290, 29665917, 11100351, 59122398, 86542130, 61752240, 68542740, 57915145, 45049791, 121556358, 125185118, 1083792, 106463621, 32788730, 76189770, 87378779, 37165289, 92027739, 96800656, 108866165, 113278803, 58972193, 50133229, 112272831, 101741787, 86459064, 87023094, 7446524, 42448479, 43708911, 129578642, 64740662, 92975735, 88606079, 66430883, 97277055, 64762191, 104820649, 113418235, 75503366, 10586772, 61563006, 40353310, 27358942, 9954137, 122759333 >>,
       << 16849576, 89834251, 40435523, 28411599, 40508178, 85998538, 42850999, 27701981, 46941599, 33237017, 67498672, 124150384, 93370904, 10266504, 9222054, 92601393, 44348953, 66431561, 47206844, 4249010, 115031136, 78867745, 18887459, 120786771, 130015368, 61663283, 21195815, 6732875, 83067471, 36463454, 69198531, 4649226, 98391376, 105658567, 25245706, 51074556, 79393027, 94197958, 114708259, 50084669, 60492912, 86389518, 47290089, 133118662, 56063465, 25025338, 118388148, 82115925, 34437861, 26451514 >>,
       << 26772043, 77392345, 13478139, 54618112, 71919345, 50676241, 119441991, 110969021, 106165086, 61822279, 131061008, 639392, 108258220, 69907867, 72089297, 42335406, 43555409, 2224351, 53651620, 76857104, 101873542, 36544280, 30578723, 103885960, 123847897, 77740212, 86331029, 122925938, 36585882, 35704930, 107624563, 14247900, 8112564, 105474918, 96214505, 9054179, 2099364, 40244106, 19583293, 115173233, 65335120, 104625646, 100485234, 79591729, 63611589, 34956007, 83514805, 25897497, 46816177, 37366900 >>,
       << 112943350, 78455134, 20166709, 15399080, 123590706, 128543550, 187483, 14335019, 114192532, 70406793, 107333419, 9529942, 67770551, 73242279, 117748050, 85949625, 82537548, 55788797, 82046710, 119943728, 125904984, 83544060, 86100836, 15250399, 28739758, 128766503, 20887439, 102362603, 113752571, 115784226, 84242570, 78681607, 32939705, 49621760, 60169561, 130342943, 127942174, 43078457, 28204138, 70956802, 41162730, 106914432, 67484291, 119150304, 85115640, 10410450, 13521826, 11965848, 43614153, 96185734 >>,
       << 67039675, 5044401, 114768387, 25320464, 40207357, 61479177, 49584228, 53099432, 7141809, 86305446, 12416290, 116856593, 131221973, 112355819, 55302565, 38425508, 112952633, 125227976, 117949129, 92223165, 21658922, 51586351, 25149237, 40518712, 111691934, 126273041, 44872078, 121949084, 43397203, 38095332, 55864887, 132760489, 21832713, 435736, 122410947, 23873133, 129052107, 16567920, 111471705, 30939182, 45859862, 95166916, 33643075, 106440927, 52262529, 83615432, 95186567, 93384206, 22765630, 19338898 >>,
       << 89068407, 33548871, 76452557, 38183707, 532310, 65792379, 112277627, 115440194, 11188393, 100763855, 59703221, 33033676, 89443765, 39608166, 30745776, 37070243, 51663241, 51408730, 122550133, 8329407, 123255694, 127732453, 107567220, 83781726, 124274628, 45703940, 111830239, 124310122, 34787630, 63388942, 91963363, 6655503, 96736396, 88850945, 6796297, 55984977, 6808027, 106851575, 106221206, 33532332, 124330956, 76595432, 70530003, 114518995, 132242384, 10333657, 6908366, 59256708, 77589905, 133575180 >>,
       << 103856414, 47978862, 14543265, 52503681, 25486042, 45271240, 17912920, 10007089, 34864205, 84880211, 102347048, 99071379, 11463219, 99349673, 23799645, 61077, 122491183, 22878349, 22207379, 39066107, 84974316, 14320234, 65445168, 45359403, 53601195, 9042921, 51401330, 69067817, 5584148, 121526912, 81520192, 45289753, 58535379, 33969546, 89181984, 111400860, 11528500, 70971862, 98238275, 128079859, 121782270, 45067101, 36213632, 16353949, 25735576, 29304014, 90477698, 26448791, 58351230, 52622174 >>,
       << 48272272, 98088898, 107859907, 1655312, 18854695, 69509831, 45707055, 131603690, 126214805, 80165869, 107390856, 123617653, 9037824, 44122624, 121438968, 57860520, 93501761, 101873652, 118013418, 42881821, 74078153, 15646140, 58954438, 86811625, 82225032, 13274657, 89520907, 50091442, 97579931, 63544573, 73659261, 22875453, 75943024, 7991926, 94474497, 44183583, 23847686, 99015700, 107776015, 40804570, 79543965, 23928533, 22841704, 11494990, 109312276, 78503456, 115801309, 15588479, 86318779, 92016146 >>,
       << 13776649, 87296533, 38002449, 21479183, 76561674, 78235087, 122203690, 81551265, 36283710, 67615827, 15153590, 38949068, 14785227, 38150544, 918028, 100808204, 11286470, 29044596, 109463607, 68884484, 129047328, 48562258, 93062198, 94391618, 53253760, 120967820, 77476701, 77991358, 25442435, 77911748, 16239958, 38186254, 114718667, 22603398, 55322939, 43143944, 20647550, 767936, 121569685, 16200923, 111246174, 21782187, 110164694, 95375438, 4097493, 14505263, 60428122, 40529830, 119457741, 5765789 >>,
       << 20420799, 6931154, 83118330, 121087383, 67926084, 86785467, 40631203, 94199489, 41234862, 58497427, 82982885, 131492123, 67537883, 68919429, 128896842, 69869987, 52479633, 54122704, 48853523, 83784251, 39902259, 72982115, 9945916, 92748705, 72808093, 19713300, 62189934, 25047412, 126096963, 107278876, 80511561, 16726784, 33191098, 88862110, 51752356, 61345840, 119039750, 89660766, 43882319, 127429497, 81426000, 127727805, 13660839, 122559694, 55880522, 41898908, 128391582, 36656293, 93126795, 85800609 >>,
       << 77405259, 16609992, 133700191, 121984930, 129743375, 42057772, 25687763, 106823454, 20070033, 96545906, 15257745, 75127896, 87863144, 3414017, 119779977, 12764538, 13203527, 25593723, 8272686, 69441887, 42230991, 118469824, 18440709, 29222998, 13735978, 48224956, 54041715, 111242516, 117819312, 71621296, 103012447, 22927797, 119079492, 129472374, 31651568, 38898945, 24565972, 72899597, 33649142, 125370923, 96001303, 130573174, 1660253, 97611998, 16828790, 19804022, 118300569, 97512891, 117673966, 98619978 >>,
       << 123632764, 33795754, 52953728, 23374737, 126522964, 52756380, 63969992, 111888035, 10961980, 84521185, 32574125, 134093180, 104737932, 21219607, 1345889, 133545438, 18714992, 42028231, 33137957, 125801436, 112076221, 129859022, 101679729, 118265817, 33975606, 21330685, 32446006, 72061007, 56896487, 59191549, 107352915, 5282079, 109191834, 60154848, 63630865, 51655727, 3977921, 41733227, 103717814, 18067793, 83091442, 123307856, 98212621, 26562095, 87484832, 133258782, 85158534, 125313105, 88733337, 88674564 >>,
       << 79194164, 100837019, 71841782, 66235548, 85871390, 94768346, 122128565, 120765228, 57258120, 95070213, 53034664, 122132096, 63050907, 40585284, 6953684, 130371194, 72354182, 94059785, 117643560, 120217500, 116119971, 67002394, 65336499, 115864537, 17997729, 10071532, 5330754, 60239777, 87280272, 45371136, 23954930, 106500654, 39206677, 113123767, 92361822, 6946980, 2746652, 32360159, 111744318, 29348441, 93812553, 4804397, 118443082, 106216908, 49710339, 114685497, 9803608, 2505850, 92331403, 90357286 >>,
       << 109303631, 107897139, 101244119, 80308726, 95923360, 115822350, 66175581, 129725339, 123107970, 19413370, 38071837, 107143167, 62002152, 107954931, 130812074, 18464221, 46260195, 37112451, 24541291, 58017032, 46487009, 38834514, 118831375, 8688111, 58635431, 99984341, 108826794, 89446245, 132712819, 71383635, 79538863, 90048268, 27832419, 79661954, 23874895, 65148761, 133961258, 113280193, 58304442, 100992899, 97162637, 127976937, 101124985, 95237875, 95738773, 31398029, 77971118, 73941612, 42823860, 93860610 >>,
       << 24867891, 29464877, 74564805, 88256787, 13877852, 108036931, 73998521, 22717623, 106707867, 124541389, 68624085, 77384329, 25598586, 121847639, 51180814, 86987073, 25730063, 130224260, 90008787, 84095234, 22335446, 104296073, 111964329, 61662308, 73723200, 87363655, 57241086, 69252703, 2864439, 64170039, 118734258, 132043251, 98998155, 123294301, 5332684, 36802127, 24245844, 87337287, 117628911, 31171950, 47282459, 121304251, 122686534, 61284923, 103786940, 87300409, 31002277, 10613030, 69936079, 82435995 >>,
       << 80810494, 49286860, 77687000, 31576689, 9499463, 110141570, 10823794, 97370597, 57227960, 91495171, 77658064, 79614038, 25110305, 90524772, 10854852, 87348987, 25658291, 42781697, 33480128, 41937863, 94906549, 62757426, 96625336, 7654219, 46463619, 917585, 109400304, 62986089, 131990463, 114712374, 133769456, 87971854, 442450, 66520752, 64355531, 50325776, 822748, 97068174, 74972655, 74031628, 123322859, 103928357, 121116277, 39934203, 76013187, 37923571, 88398820, 77560220, 81795187, 82135339 >>,
       << 106349917, 122533185, 53619815, 26550919, 104990224, 46506859, 61212493, 50718837, 67722074, 55854520, 94536173, 128606319, 55647128, 16810201, 103172758, 9488216, 31900887, 73394823, 125408204, 1541456, 108966895, 43668412, 122400224, 77685354, 48104033, 9792433, 81991922, 104843151, 110488843, 34521441, 74147907, 37510315, 99300722, 48183579, 37299640, 100428759, 22993497, 21861832, 120826118, 49766229, 78208534, 44669122, 45183986, 13532049, 26326066, 109673559, 113562648, 110658187, 25357521, 95023740 >>,
       << 4639771, 99656128, 43943711, 82186036, 9035657, 47112940, 39479509, 12920794, 78092576, 55495074, 27939985, 88509501, 92444408, 47565053, 14728229, 123576808, 100349070, 94489191, 123995711, 123041570, 13354960, 3477539, 80081052, 55126041, 66824887, 41422604, 45986334, 14395475, 90264694, 30922759, 131174607, 115502718, 108271689, 125049841, 57564383, 30786648, 53942479, 101510185, 47711948, 98533881, 81256248, 1317537, 126537995, 114555109, 44986376, 98512414, 4085386, 33797209, 8708786, 65932621 >>,
       << 31856715, 66656221, 118501205, 123692240, 121548886, 19107575, 18879978, 31844215, 35005976, 18026540, 56345831, 116255722, 94229231, 65345837, 113182868, 67421350, 105608677, 108694997, 62561816, 116551342, 128921548, 128552173, 5306750, 133284498, 95210039, 26672019, 118584006, 128291225, 110871783, 91057294, 23151102, 29055362, 85000213, 110801628, 73147659, 15037335, 18780764, 69250239, 10761351, 59236768, 8472928, 119030050, 106361092, 117199366, 70642553, 109522697, 83495185, 87757074, 97372252, 76531316 >>,
       << 100678966, 30878052, 47419763, 126773202, 115523801, 41232684, 90562813, 59474598, 99552453, 91535200, 114301043, 100546169, 42970787, 117752694, 18660016, 128072938, 110206593, 16106829, 9476587, 121219807, 21640113, 59221668, 100556524, 42570341, 127237171, 78026694, 56789076, 32771715, 101659196, 114974826, 66846303, 119607829, 109621348, 29186650, 9439565, 11768147, 41045554, 81379635, 112912367, 128039872, 27627980, 32025091, 132946998, 132610434, 14113692, 120482639, 2167465, 133722679, 71811723, 67628098 >>,
       << 54056184, 21739771, 130726597, 32311282, 7226037, 109576866, 57980012, 98247818, 102924626, 44872912, 104887073, 130336427, 78042954, 119268576, 34818205, 90373107, 111471075, 3536226, 3590465, 31524575, 109258465, 124524418, 71477265, 12821119, 68374717, 107530747, 2511542, 32675873, 94621380, 56033448, 39975447, 73436108, 127753136, 49958929, 96001022, 12439236, 90933885, 5024377, 123170974, 5977036, 17312636, 9089530, 67216215, 20544162, 40876216, 10174070, 94814345, 33933878, 3185748, 73010869 >>,
       << 11709677, 60094560, 6112433, 18081271, 69497382, 35136945, 130528761, 56728023, 8412922, 56990439, 85148713, 73840258, 63160457, 71532525, 59809445, 86104629, 106372995, 84870682, 25710754, 24658046, 101936792, 8620921, 37788847, 76218490, 81414105, 77033235, 64189263, 115679440, 122777110, 114626815, 1442173, 28135317, 89219877, 17228078, 129204058, 2764866, 37594961, 25193729, 86466715, 41793765, 89159705, 66515024, 34334615, 28594436, 97205419, 27505344, 41176238, 40994840, 17409287, 14022197 >>,
       << 5823398, 55211598, 48482562, 8904455, 116875267, 6037713, 108017030, 2793163, 39490719, 113206677, 53029194, 260958, 8809485, 1608857, 84423779, 39231298, 14834428, 26746598, 16369021, 31462368, 45127778, 49175618, 44823092, 128854780, 100018875, 61097922, 76668481, 40729909, 17872163, 6351870, 96737650, 63398860, 101983895, 130965832, 134017272, 19695271, 91889822, 91396877, 17166877, 91135885, 31141389, 80100604, 128861993, 47961458, 56809428, 101337143, 115511154, 133617399, 92938914, 62310967 >>,
       << 17512308, 88172538, 11420105, 65648753, 50703814, 106691134, 104837973, 10301903, 95398319, 70160252, 107473166, 102578944, 80518543, 119617833, 101804755, 75068279, 126291317, 78122067, 74398985, 66681664, 96007863, 74319828, 121631198, 113949830, 110484194, 60928840, 65915202, 56843801, 63903876, 98723843, 58781243, 123188346, 49803545, 116067224, 8531907, 29224242, 67122428, 64475912, 62373566, 88084649, 10261827, 17286261, 106009717, 28599535, 81399222, 72080932, 11277587, 71542220, 130320232, 77008862 >>,
       << 29958257, 82506873, 61266572, 86331936, 85343826, 107358257, 21573742, 5599529, 37276960, 68005286, 63961660, 30175456, 5212326, 36897895, 48485624, 15691271, 78776235, 33945364, 42826881, 45846438, 99222316, 67282190, 55014398, 124740979, 68424995, 108513397, 111271295, 11340637, 86597336, 98857334, 106081097, 61236164, 111172437, 97199356, 29977062, 37654696, 15229580, 72283083, 74560711, 120638698, 92018464, 4109890, 66925145, 129096032, 130792581, 77677027, 88224079, 54054811, 104536764, 41835453 >>,
       << 97699007, 90910471, 5375433, 33282649, 84071105, 85051306, 106751300, 14353696, 46685753, 117624762, 65023119, 108026188, 42815231, 68450876, 44486674, 83190352, 25864530, 121758653, 76333367, 14232859, 102976053, 132131904, 72388053, 85571863, 43659599, 32000992, 88808499, 52519077, 96676046, 18818549, 4424915, 48546163, 120866762, 37437038, 111030101, 41025856, 80658233, 25664238, 102972830, 31613410, 78319964, 24521615, 60137366, 10891793, 90499271, 75637167, 42439662, 33777572, 4173734, 126588165 >>,
       << 55106866, 30588727, 69331793, 42146167, 113741469, 56435409, 120313494, 61214909, 1131880, 18827060, 131146981, 7320599, 99171003, 62848904, 129323332, 85213155, 10026524, 103042742, 47662793, 26470396, 61557140, 75017254, 88144846, 37460837, 24952605, 7404767, 92178458, 120168774, 46488366, 48189716, 91595751, 87091318, 46740305, 96500998, 45174424, 101436608, 29399789, 90431838, 42897398, 35833458, 37905171, 125757974, 101914354, 114007123, 4833340, 60421544, 101850417, 126039112, 123264802, 69276290 >>,
       << 95053854, 79655735, 90936660, 55456043, 61207649, 62811761, 93756938, 129880610, 67556543, 117377069, 70549307, 72215395, 130466071, 107708871, 78895533, 124437099, 117672315, 22111356, 86482450, 96074027, 120458794, 97967953, 18176332, 130856186, 130651974, 107247631, 14207364, 102312295, 124149990, 4198813, 99356981, 5194115, 61140454, 104639631, 18768763, 91152134, 89400310, 1227937, 124227471, 37209424, 2907711, 103217257, 101481578, 83020423, 41655233, 66369319, 101980564, 130178096, 9133640, 132495274 >>,
       << 16749735, 104997339, 23325403, 39600291, 54026991, 14180104, 92352887, 59538057, 49266095, 89746901, 66005767, 72130601, 92992826, 2097035, 119789953, 126645929, 37512333, 12720935, 126515079, 119148191, 3085086, 127851016, 93154652, 132281124, 41691402, 74081712, 57381214, 54875568, 64890967, 10981522, 70037046, 56161867, 34509009, 127645908, 36698001, 19989700, 128839490, 58170457, 16922569, 103292744, 39237816, 40348400, 110558581, 127133303, 129008638, 66782059, 7958321, 93375827, 34730338, 75557998 >>,
       << 73633726, 55623595, 63084877, 11027897, 15432404, 108072704, 2103413, 131488017, 15766597, 67388127, 62167758, 62572467, 104500345, 1849485, 30994964, 32505856, 21076233, 43795195, 62175550, 104227863, 6309064, 93004583, 38287696, 88531821, 39427487, 30082066, 105472350, 101296472, 3912210, 62220765, 32785893, 18066215, 41333387, 112757312, 50493774, 88504112, 56793504, 103707060, 71150374, 76006785, 133127555, 82351218, 117422017, 64811674, 88217088, 119741288, 34409001, 80627170, 108888902, 108833770 >>,
       << 91176318, 8031842, 101302533, 28694357, 85776835, 104125945, 7656723, 35001576, 107118478, 128916975, 30545229, 68910923, 131883980, 13569523, 107749860, 62282055, 59365908, 83795838, 79832858, 117890200, 99413227, 67137203, 125292069, 79173618, 76962544, 19157188, 35047173, 54216352, 112941650, 76988681, 21588096, 38068147, 62695253, 2997249, 37917834, 114765973, 70785943, 16268796, 14130724, 124700519, 125479516, 91279748, 25722735, 7944059, 12515069, 68673518, 57177425, 103052881, 131210813, 38710048 >>,
       << 32891532, 18240107, 33213591, 11239102, 109262836, 35472122, 123792610, 47952384, 92521615, 50862538, 109466722, 49873371, 13005343, 68465074, 105648355, 16736740, 22287003, 62238964, 49285251, 79816245, 10827848, 120465328, 109639721, 63703699, 7632895, 2895606, 32981389, 36403502, 32485111, 121269532, 101861748, 61779636, 36347748, 26549669, 97822879, 113128887, 20744292, 47526460, 119225529, 51181649, 108188255, 91621115, 62947597, 39730869, 3802982, 130527397, 109054318, 106561848, 129855966, 104964215 >>,
       << 92452630, 44372878, 28183701, 50995022, 18531757, 42305753, 12268787, 117486040, 87161477, 90161283, 20781711, 27582393, 16572154, 9803194, 110275839, 45171932, 34605956, 14659357, 85495012, 8920307, 15239435, 79439799, 112201627, 123501399, 120927423, 3626428, 85909776, 18456097, 3726953, 50892785, 1554281, 65605654, 13752049, 33265405, 98919184, 53957036, 87189880, 78256664, 27367373, 7081068, 105234666, 4435705, 48382919, 116922868, 17259700, 23694289, 10118322, 131234175, 90583116, 41512466 >>,
       << 35537951, 22005020, 86802493, 116045883, 56885714, 105250290, 124480886, 58752317, 87776492, 132383356, 127001065, 32795298, 100430130, 101216318, 49061599, 109562219, 26865874, 75234156, 35636710, 89895642, 18265579, 42407825, 104012674, 56964702, 16095270, 16601868, 111738847, 54942990, 14585141, 129294710, 91995436, 41965869, 89667571, 102602406, 83372541, 76621601, 96022412, 82021749, 41752856, 36256862, 98590738, 19014500, 55443611, 106314694, 94190847, 11444897, 71664003, 36938349, 114221769, 111002234 >>,
       << 44218086, 42222691, 28139308, 58866328, 102433451, 103881702, 133782847, 117828866, 42510825, 71848779, 130355781, 20699565, 53885207, 71131069, 17079528, 96614839, 86054454, 83868099, 49491982, 8056597, 71653148, 14289676, 36200066, 114288325, 82146730, 77917351, 109659584, 114366798, 88168783, 41734301, 129853911, 4214362, 24558142, 107249663, 25703214, 17926980, 26152810, 46618840, 74512376, 49719362, 79612839, 30868717, 110793664, 46682659, 68608892, 7511289, 93102065, 27682968, 127373451, 89880660 >>,
       << 98892916, 125218515, 84366747, 44729319, 117560656, 86548887, 23004224, 68180379, 69507545, 4061405, 45105646, 3760562, 124293307, 108161372, 66550163, 42433237, 6116455, 117153074, 66716184, 96109482, 89342398, 68247066, 11815179, 78639415, 92090234, 118449783, 119685982, 84617850, 110230232, 60540902, 108487547, 28429808, 48413972, 34795549, 105812232, 106022951, 110386583, 39552670, 122415813, 17650951, 48067198, 24271143, 37647905, 94454944, 94117751, 63533443, 66080843, 65586428, 64749808, 33972118 >>,
       << 38288858, 104502589, 122104181, 36704887, 75899286, 52414485, 35506402, 106612319, 78826137, 32921197, 4553185, 41086615, 57329492, 37891233, 108277802, 7096050, 6551011, 58352639, 1168917, 51879460, 76275940, 71413596, 117278070, 68589838, 124007578, 18215592, 52368350, 39950093, 73328070, 58302872, 16898808, 128886877, 99551379, 90140043, 61401183, 48875981, 108210013, 48990326, 107686484, 27902884, 66684613, 62094090, 79684093, 30584185, 105382035, 118912560, 109464582, 133887486, 75493715, 47195816 >>,
       << 121227097, 87454554, 116144463, 38957167, 87674331, 107973102, 50981142, 2777998, 78223377, 13512483, 18752036, 16278384, 2971487, 118910594, 113607783, 34113274, 3269183, 62785505, 21093658, 115388076, 48380316, 33994823, 108693030, 131233125, 47543646, 98131811, 26590610, 80940302, 58393286, 5841615, 12425857, 101423784, 58269312, 8113001, 76974494, 111919010, 133095978, 82476296, 114680240, 132369411, 109288038, 29870525, 18969722, 113065989, 84856901, 99747007, 33939947, 62912509, 4171762, 59104147 >>,
       << 75654005, 19236613, 53303079, 127802007, 18263801, 48394743, 89714997, 125906411, 119823656, 106570684, 13979159, 94846509, 64011670, 39815520, 27016931, 16693355, 92024729, 52914246, 103864587, 7619768, 29206666, 17675969, 49893153, 7880918, 87118688, 110760754, 31022978, 100598787, 91321403, 131335998, 92951702, 104285366, 78448668, 39882385, 33088063, 90460944, 85177444, 80193305, 68251798, 125415997, 71291592, 34716309, 127202880, 35894863, 125873540, 20743996, 61730649, 74733879, 76934576, 47981171 >>,
       << 20843221, 92030285, 124104040, 32587759, 57361937, 12187690, 105543207, 114241207, 67025040, 79393857, 122182071, 35513383, 76491866, 55584858, 97429818, 35240667, 45113703, 124346827, 107164591, 41110112, 81134206, 93771118, 100456155, 120239084, 47559274, 95462953, 83641697, 47518328, 113108422, 61259490, 98387764, 68058316, 117554138, 15565853, 23260029, 60213476, 97326181, 25910150, 97394801, 14655853, 66170884, 95245000, 117317281, 38640863, 91409518, 97694426, 115852341, 88415591, 107511105, 19290770 >>,
       << 58981830, 97891363, 14290214, 71012403, 30679727, 17813746, 114085939, 19470394, 125060745, 91640524, 37562120, 121095931, 3176727, 21662928, 28625589, 80490546, 129518877, 28007018, 52900345, 115762387, 89343440, 122705361, 17359956, 63860394, 52004389, 13738800, 61964259, 54848745, 123228244, 109481572, 36322502, 95360634, 4080116, 102870581, 89431177, 37147828, 131331246, 5427084, 37334666, 97764319, 123885058, 52269576, 45144993, 89091046, 49201955, 13327702, 10840616, 21927225, 74146093, 50703850 >>,
       << 31058823, 67731767, 10664282, 128446600, 16477859, 129496473, 2135165, 47005064, 879093, 125859092, 18234455, 94938841, 116695433, 107999232, 17617011, 71390006, 96429870, 80946850, 21734582, 5081624, 63998756, 104011346, 87221310, 39185349, 91156780, 85420311, 45434040, 78874730, 47849581, 22777840, 106453661, 127011715, 125098983, 70583596, 131171352, 96390761, 127154232, 18096825, 59371666, 104668853, 124990617, 120785201, 56371308, 65816098, 64628408, 106647995, 36629025, 24502841, 27686167, 83879393 >>,
       << 28211997, 42727619, 93846632, 35566996, 29128328, 122225865, 100932871, 30767636, 110047741, 85731725, 133517053, 118144521, 61311543, 25974662, 98168046, 105701415, 17876969, 96026284, 59118335, 69797193, 129304011, 28984130, 81592462, 56133962, 103312296, 100150830, 77640642, 25113062, 10712150, 110712419, 128649954, 46266539, 16065016, 5511560, 1599809, 18515794, 50916224, 189941, 65728717, 59193052, 101547836, 22163915, 9088182, 34555653, 25999321, 119995186, 84293030, 84106245, 33739790, 128011409 >>,
       << 133771019, 93537432, 70051593, 51722970, 128367616, 117736927, 76403553, 89453826, 105669266, 51359444, 130359059, 106041911, 124345313, 111577314, 46072417, 29068348, 117384994, 66668408, 9164814, 48478396, 121145447, 47845082, 63941683, 33370067, 14951680, 130136433, 3536043, 47794440, 24362552, 577326, 75204210, 76208124, 75085726, 26111443, 8790367, 74640328, 60824254, 29793830, 4069642, 89290446, 108702932, 76281910, 132626376, 48499748, 6944370, 63929185, 83576948, 28131027, 112916919, 31264519 >>,
       << 62689431, 60302971, 114083863, 111347242, 121407843, 30566116, 14153304, 131856226, 17472303, 82181618, 63932497, 132728454, 25873158, 119331408, 127037567, 36930960, 126344716, 11493731, 99599864, 41787466, 69416639, 45618660, 6935203, 119953532, 131359542, 102970918, 21462628, 91853761, 92654373, 60917200, 89904623, 122466823, 133906819, 50079089, 81408044, 85751861, 111327760, 120141216, 93512424, 3597082, 70529456, 20049125, 55294333, 73029297, 96124294, 2488036, 34722, 81536672, 7890949, 63360006 >>,
       << 20232427, 23195712, 3693563, 75265952, 87940649, 84323045, 64100922, 11461053, 116958807, 21021461, 126670309, 101089353, 16272372, 70121606, 78429219, 113450189, 101010185, 130926641, 37483872, 46596314, 24157538, 32925059, 80021813, 133676306, 86326222, 93908962, 43399168, 76535615, 55502621, 103673227, 5073784, 17636865, 31484420, 28146130, 10118170, 109100188, 44003619, 108809111, 83306443, 121726484, 104658305, 119946369, 83730015, 69269014, 96848989, 62352014, 126980202, 47080846, 15433401, 61772907 >>,
       << 48422861, 59791280, 105972931, 83356597, 3966953, 26534946, 22461327, 26388840, 1846916, 109931210, 125620634, 73926899, 70568301, 72266709, 7608415, 106617962, 58243617, 115927091, 406039, 118915487, 81202896, 37984879, 126024943, 8997633, 62392045, 45126713, 1582056, 22723062, 128143518, 106742716, 98548715, 37537455, 16342891, 127079610, 29666825, 125192266, 3223739, 6318880, 59552653, 68885487, 83922781, 73317720, 56800527, 66253213, 87191317, 46915616, 69212638, 94042049, 104873713, 65041138 >>,
       << 43559277, 45724641, 91640076, 72639943, 45376919, 127438793, 132995241, 655788, 78879891, 45470218, 77180611, 101073584, 13014556, 40756659, 44997564, 5783996, 39819178, 83028831, 111245699, 121967916, 58752214, 23619033, 120964657, 33300444, 52455850, 55338168, 83486723, 39093288, 90886152, 52794020, 17171287, 59768903, 23888258, 67337709, 57612764, 128236314, 45515474, 14010182, 72501291, 122308859, 16755738, 38659080, 102968090, 92583213, 18029931, 5282825, 41401403, 106465515, 129875289, 123327057 >>,
       << 30328557, 87416138, 74281776, 36291161, 102734673, 88869581, 43480195, 122581660, 6171992, 91533672, 128101470, 92445789, 34795990, 121690508, 53870443, 19627540, 14233190, 65363219, 117674286, 51816909, 35002685, 88905694, 25954866, 124697247, 39714236, 81171410, 116745170, 27003272, 115200967, 77040211, 121366624, 38458120, 14310184, 57142506, 105241678, 117953219, 123675210, 127174366, 95947144, 100952788, 119004452, 50688574, 60281541, 34414723, 130010281, 4497940, 59273204, 74613348, 120045237, 91104900 >>,
       << 75127595, 90196415, 117710688, 93278082, 56299666, 75650456, 68550769, 98754161, 111931177, 116083439, 125627901, 93479067, 120577370, 112196558, 127092595, 48305245, 71524417, 42233684, 59930717, 36337178, 83294744, 10116838, 128545163, 100856367, 11548508, 7328474, 53055148, 86654912, 108856795, 125794252, 58620174, 61435513, 86047846, 20298578, 131310181, 57551416, 38882460, 127455503, 12300792, 67646233, 60075755, 83861148, 31695525, 87660116, 77720615, 60400210, 72205790, 82027185, 119825235, 42551193 >>,
       << 29075094, 61003845, 63446008, 7030982, 9728002, 129790594, 21489284, 37411802, 77173986, 28556312, 117952495, 113214039, 14698809, 57869329, 99392947, 35697867, 47831723, 90702811, 89925170, 80213358, 69999514, 133995243, 19759507, 124326172, 119970942, 34719473, 131825514, 33131349, 132414664, 125694707, 58859813, 73360971, 1958231, 36293441, 59108933, 368153, 39288941, 5271741, 64756410, 84324458, 79078472, 26965153, 52207779, 46246137, 9163338, 107615873, 68311568, 112474832, 60002897, 50099438 >>,
       << 52870006, 105544550, 77833530, 23949037, 132305163, 57996754, 120787239, 93582258, 121167276, 79119854, 18731663, 101582910, 6734269, 111894548, 130293673, 103811446, 104345450, 126228290, 128833663, 29605202, 89688354, 130060713, 127312145, 97343334, 21345375, 63031725, 127886568, 27963296, 129372462, 45941320, 104195161, 66614461, 15812166, 18922464, 48882884, 52263332, 119591466, 64930142, 132905733, 24775420, 132742322, 9712717, 20709689, 114438728, 33442775, 652253, 3605615, 74164235, 104747338, 45823741 >>,
       << 61449547, 88547693, 67907115, 115765839, 77323806, 46832109, 105719499, 78782824, 15453683, 49312960, 31424194, 19040328, 94709307, 40927633, 24377790, 45690294, 104098346, 52124792, 51090978, 2646902, 927070, 77891085, 72430880, 105291180, 97170564, 114631937, 112761, 117502481, 117080835, 44780993, 123060660, 65915047, 108877103, 72167860, 28569236, 54662098, 87692956, 81302246, 6197870, 93654912, 128007614, 27587025, 4137416, 27136761, 121047499, 122143638, 36059977, 9821354, 110213377, 122167022 >>,
       << 130934403, 33002771, 110302055, 85479589, 54447074, 45416300, 87810060, 25373612, 16778540, 78961202, 69200346, 43376122, 58207943, 98284462, 125656135, 71954864, 35831783, 82749584, 119457156, 91221559, 80807597, 133944651, 115308519, 59566959, 116198039, 96653845, 107736721, 59215610, 109570934, 129557525, 3706170, 98833510, 66885393, 107544389, 5839746, 57202281, 5902440, 3341214, 66937021, 36554970, 125982310, 50644002, 13329586, 111610810, 37312054, 105653439, 32160364, 33221646, 117021687, 59745642 >>,
       << 4212666, 133260193, 6829228, 105217850, 37282809, 98415906, 79356649, 10649487, 97921477, 116458648, 88647615, 65525210, 133121569, 41456118, 119686937, 127514917, 38079144, 26437571, 52011959, 75137680, 58744804, 11066004, 88626319, 97738528, 85487259, 110853850, 113762921, 121228677, 51214343, 31992349, 67610027, 122195196, 94292549, 61529651, 58607910, 25026042, 117438677, 10648266, 121674456, 48021410, 119726926, 64157331, 95009090, 65738870, 107372938, 40406351, 111729429, 833667, 99194060, 43625385 >>,
       << 34221050, 130491259, 50285516, 111849008, 67322690, 58670156, 57590483, 16366388, 70266070, 20030751, 38986219, 102047474, 72372062, 97231771, 67038045, 41286202, 9001794, 36782876, 22862637, 65636875, 67901354, 48526106, 118430862, 31389041, 84257504, 8525488, 33647384, 14606520, 97414286, 98517578, 81116100, 67526710, 67185352, 63099236, 23235901, 56138561, 27815268, 95133799, 34660244, 92079989, 76766291, 23088830, 11027026, 84958868, 21613513, 18300985, 27508506, 95798857, 29367209, 77341866 >>,
       << 116704853, 78548401, 112004418, 107509029, 70350607, 120400492, 112850071, 109681127, 123252957, 21369484, 16464887, 42150172, 75589668, 105425405, 3195779, 1919114, 61877858, 93774783, 110353927, 16498529, 28403396, 115583702, 130169629, 18604214, 88827591, 93420921, 902071, 38851781, 96418609, 36655447, 127248509, 68646505, 34704340, 123882363, 104765821, 47124706, 56359299, 60851542, 123971702, 106712309, 64824154, 9539013, 48771844, 111407120, 111082390, 89490181, 35690986, 14826090, 98527648, 127589384 >>,
       << 62365525, 87228572, 93379300, 50985357, 52423804, 948426, 39822519, 42365923, 56061370, 73558866, 79067193, 112450962, 30960439, 77407425, 11343943, 119714574, 13251392, 53937995, 92022653, 109896497, 99131597, 41623157, 49738823, 59078776, 87631821, 53777234, 65974746, 123564216, 105617322, 109956225, 89571805, 126984787, 60414021, 100909647, 109332257, 53619787, 125119562, 49988419, 109578249, 63596943, 96579947, 58119444, 51655958, 53803955, 115605450, 33783663, 64512815, 130548838, 52888348, 6290641 >>,
       << 75448989, 47350485, 16874157, 1130200, 67126840, 90088854, 98971070, 124597753, 45905540, 114067379, 86001439, 18747306, 78667093, 58490788, 41721729, 44229072, 118173850, 43037622, 124362596, 24836379, 9477065, 65902440, 48822608, 8324593, 38590029, 76937135, 83645168, 72113350, 69713695, 66452258, 71030671, 18033466, 79629316, 74935324, 67280561, 65451351, 133690000, 19272495, 62816536, 48397949, 40142677, 99374889, 37027175, 19024449, 22362187, 663960, 57864579, 10335434, 92199397, 93929804 >>,
       << 74358037, 48562037, 92924523, 5448206, 55586819, 119508965, 81513680, 22839523, 79847709, 110980528, 71968855, 62735137, 105177888, 91192701, 31159925, 86618051, 70623560, 57954483, 105377301, 92015796, 36994334, 4657496, 8281699, 50989790, 107428722, 64283943, 18749227, 40975321, 55684999, 115540036, 128861454, 57954180, 27134697, 78404125, 5022831, 32984537, 21773752, 107387657, 116329277, 11773592, 34486323, 33174825, 7463809, 26035642, 11940280, 73012538, 93455492, 25490427, 134194187, 76057239 >>,
       << 110160694, 120494671, 32086812, 32455784, 110165558, 2659953, 120371526, 10600510, 14561847, 123719234, 15037526, 107504556, 116615801, 68224244, 35278474, 89735813, 2879270, 53752009, 47464991, 33768099, 67346090, 71373910, 43403768, 46055222, 70205294, 66860919, 42920489, 49866003, 17908635, 93486614, 38862698, 47711604, 20599697, 76438765, 52706682, 14004543, 46117588, 10042134, 37108532, 25884872, 55306850, 81686625, 61399117, 125681835, 33950587, 46498672, 61045275, 94960563, 128003263, 70233781 >>,
       << 28336171, 42598189, 9778829, 125823664, 60809589, 128533055, 76755111, 118070649, 73310676, 26805812, 87263926, 67333153, 61240406, 95646125, 124208880, 11944341, 88144918, 32418399, 44047373, 46855073, 130040784, 53340366, 128210192, 56937033, 122657202, 82896635, 57985571, 130644422, 117677806, 33211214, 88187769, 132473965, 27290989, 108432544, 112873305, 72827764, 95569490, 108127663, 77197710, 47701144, 95373887, 118812983, 99931773, 72101523, 58701881, 89160100, 33599533, 9165963, 62273706, 87687975 >>,
       << 71656783, 123939825, 18906776, 43891982, 126775457, 91605844, 51952261, 121327172, 6161969, 92945857, 16464071, 80531418, 82507376, 100659557, 78269632, 133303167, 14876776, 104007126, 110357789, 122960524, 98645768, 58004202, 17301884, 35398178, 115522750, 56984581, 125395800, 80900715, 41140263, 85069961, 63153056, 56492929, 94446493, 127369657, 22564772, 79444972, 26296768, 52792444, 107603376, 118826352, 91805453, 125608863, 72032003, 38112097, 18439928, 57930276, 70492586, 115428034, 48571728, 112274464 >>,
       << 15693088, 65128666, 129667960, 79168961, 61414583, 25667705, 58264870, 64610599, 75777907, 97560963, 112535828, 81363169, 118976688, 132419652, 6524543, 12140779, 109072431, 117806353, 526751, 17598115, 87909784, 132613721, 124896036, 109621610, 113977227, 66364384, 109144543, 10345276, 81432247, 101871540, 7801838, 91224475, 105579197, 133789310, 83235223, 41984383, 114898646, 96676759, 99482978, 90744217, 115947279, 17073410, 112297878, 1211767, 25215848, 72481128, 128192358, 88638560, 60961231, 21319874 >>,
       << 13537098, 122823578, 17261216, 16669845, 104132227, 115488376, 107595830, 49033829, 85488872, 10097403, 76790148, 5565428, 85082171, 36777833, 120666690, 47223553, 98114458, 106905725, 51363891, 23021275, 110898716, 40902313, 109455812, 132368640, 97056370, 36327630, 55978513, 92426080, 24544692, 20200353, 4785037, 12596398, 52436997, 45175231, 57045609, 54765439, 29134138, 84848377, 106299175, 31651456, 80748819, 28472624, 132259641, 91014835, 47352968, 4894860, 70051422, 20892180, 38647841, 25314883 >>,
       << 98219621, 17646484, 51440401, 17210301, 43356706, 32290416, 90408607, 72270877, 12259939, 128098678, 37113249, 1945284, 31543524, 7201351, 86329513, 66372813, 42128097, 42059707, 126755184, 114773202, 79899841, 101564909, 70739836, 112499172, 38093401, 8797403, 90269817, 36729273, 119986412, 21424500, 8225976, 18943936, 118667996, 37994683, 71030650, 39933235, 25451231, 101069107, 127247281, 46509823, 6612943, 65479349, 37583627, 49536082, 1943829, 102001028, 128146099, 100076737, 80564046, 28502238 >>,
       << 98985742, 116382807, 33118478, 126387596, 24708995, 69188082, 7262252, 114751952, 78417702, 85852507, 126199571, 118376123, 75833770, 81617990, 106195385, 62495884, 3280750, 18752079, 35567457, 36215937, 524722, 40571322, 124536969, 105727979, 27140392, 11547958, 3227736, 121775569, 83179518, 1613919, 62821585, 64990435, 12910752, 89828519, 74794468, 23339154, 31622989, 90956451, 44096618, 94301949, 92537708, 32417091, 125990540, 124636719, 17343433, 101534488, 116748908, 65627524, 63715184, 84503452 >>,
       << 86311307, 29610000, 65702105, 58541098, 47593471, 46056483, 34528194, 59168009, 53396769, 8706917, 58729793, 17082399, 59567588, 47911413, 63862843, 127106014, 30231456, 45305628, 43015526, 41605434, 74815145, 124386581, 14326307, 38668201, 62834394, 125843804, 13062622, 24122210, 122022356, 52295775, 54530866, 57443937, 14193897, 45578412, 119630310, 91716516, 33160253, 77859399, 29146157, 107191263, 103602646, 77457151, 99988898, 116764290, 17117708, 81499215, 35736271, 24056124, 62098694, 94999678 >>,
       << 6845681, 111705223, 18634240, 129079813, 9257551, 46405210, 7901280, 125324121, 86123265, 13183124, 27876228, 118742726, 34183020, 111468696, 114623021, 29874642, 85441352, 33495499, 76422772, 6783254, 58608056, 21152378, 63424553, 83044549, 114712936, 99435850, 72423090, 130517729, 82280042, 86440788, 118825001, 44367338, 67678822, 24284760, 119673708, 38657589, 109032597, 59923265, 63505691, 25359610, 28886122, 94604153, 118724368, 111700498, 75829234, 9377895, 111581429, 17662714, 80936129, 116080651 >>,
       << 81023619, 116037943, 5825206, 29668465, 60387538, 123340565, 15021934, 92429830, 80599649, 14715933, 19869353, 132391962, 59271134, 46524884, 80457402, 32537115, 76149672, 93525265, 105698117, 48671587, 42286400, 62003157, 89651742, 123491824, 11748631, 127363899, 38631003, 107648146, 24261159, 11311304, 106001225, 99239968, 12022183, 56562358, 126220028, 90374231, 25095102, 131939269, 23793492, 4509236, 111834677, 124304271, 94784312, 52559164, 114940696, 87703852, 96857490, 90325120, 43647949, 80267569 >>,
       << 11924247, 6154977, 517446, 96253092, 37058337, 111959091, 33746208, 25446306, 52864878, 33713557, 117648863, 28936075, 52653075, 35842263, 38936750, 33685975, 28221330, 110556774, 21524239, 100495349, 104439812, 75621910, 108496765, 106620162, 56157110, 78952166, 12469459, 33941326, 19777543, 20979589, 92612666, 102025257, 131611139, 123919532, 94964891, 1000660, 84763944, 7566443, 62194957, 84456685, 20165688, 22166057, 123459960, 119345175, 128532331, 59248631, 53415093, 96341904, 67139181, 32074883 >>,
       << 42834261, 21100444, 61983837, 68264794, 6302504, 113706373, 84181342, 68084751, 121126021, 118447366, 123491639, 59866120, 123713944, 73197932, 42897013, 89745255, 64747138, 14283930, 7566955, 80743345, 122943678, 29299635, 25280582, 72532202, 100745148, 49946845, 29265818, 5300565, 1914580, 5851616, 78920236, 5823366, 120730509, 8052671, 89335519, 56773510, 28414751, 85112330, 130925313, 18859018, 45916755, 69052197, 98097627, 115489898, 56925573, 86622608, 128492012, 63866746, 125067733, 59853645 >>,
       << 118743604, 44386555, 38075729, 54020921, 49617089, 74024948, 55457138, 16186057, 64348569, 22239676, 74187504, 88324669, 41482161, 129376092, 62078535, 87808260, 3732591, 32390660, 38828506, 36804875, 107833925, 56526786, 85593647, 29071308, 29557337, 24670627, 95527839, 38526132, 110064629, 50806922, 47473757, 87041166, 105891410, 130478192, 102101651, 89946386, 55446571, 114846174, 115945759, 70915538, 38258184, 125933065, 110369009, 103512016, 8731930, 44853520, 39820562, 100470624, 55139132, 98629487 >>,
       << 26936963, 44680668, 16252081, 62483639, 41957623, 66448559, 27382160, 42088285, 130576056, 132622056, 101508539, 9124796, 109739871, 132786306, 69078311, 49184207, 14525751, 105710958, 97856614, 113162946, 133196866, 67068267, 53134557, 76353968, 90545861, 51889216, 48180863, 94440377, 109657601, 76010158, 48443297, 122556774, 77834984, 54812923, 43917235, 105907069, 55276371, 1692090, 5606948, 105446957, 124635912, 85975263, 123688063, 103230911, 123262531, 124599735, 30691047, 94669012, 29384006, 60089721 >>,
       << 99852007, 42248617, 20595202, 24473033, 76419399, 113146556, 53037683, 98886717, 36513577, 69234481, 34398271, 85554087, 18746426, 11848164, 1168329, 75692578, 21442068, 24697616, 130293462, 119091623, 17164035, 43764065, 12426037, 98294714, 35643561, 45434240, 47395843, 64418758, 123186247, 78903040, 85080292, 49427843, 112632706, 96682700, 26569756, 60821990, 86056922, 17510280, 30850239, 65051695, 53217173, 55460471, 6049710, 36643560, 9406877, 38217181, 19316859, 125589374, 57665803, 41189400 >>,
       << 28723100, 7706466, 24814909, 83057632, 113582291, 63332523, 6206022, 73165207, 10398976, 29619065, 106042100, 65322397, 20838048, 24016631, 79233755, 75103508, 19158712, 16355739, 2166405, 83206084, 104577517, 26885969, 48547040, 85681139, 101630917, 19945410, 41795025, 119788244, 131391131, 90083348, 25527189, 81350817, 20512365, 22306394, 81517881, 85625725, 49564012, 4420773, 11670126, 96140044, 132774631, 90423562, 89529662, 126727196, 125532064, 41018545, 76204237, 52898301, 120496639, 17862581 >>,
       << 74758190, 34936859, 3432912, 61856291, 108080281, 58051569, 90848096, 86759860, 89605734, 79409621, 108714894, 44079983, 26593436, 80994675, 7306170, 123634364, 73252007, 62792115, 72275843, 125336786, 28510215, 88480466, 134046112, 88083206, 39467794, 100867888, 66951469, 54072891, 61459280, 92212687, 83711907, 3227565, 6750807, 127625493, 131129370, 58827857, 67884624, 20915021, 41701966, 40728138, 53584896, 57840003, 131606130, 52631060, 50638442, 81546157, 41420621, 92319382, 75431466, 29793788 >>,
       << 57905500, 124726506, 91843025, 110002297, 654149, 91269032, 129889889, 75842079, 85064857, 41513109, 28234257, 69530218, 54824544, 67854979, 21309629, 117950056, 91573599, 99777875, 47778960, 121523665, 97814730, 2201166, 71051847, 43886413, 45015319, 77749832, 24262207, 44855279, 105646756, 84988229, 57334276, 22168387, 76620081, 63984830, 106402031, 24744664, 50600566, 51046056, 75908907, 100768145, 114122242, 19641805, 28281706, 108339749, 122554673, 104429633, 19160042, 43942135, 60119596, 98570651 >>,
       << 109336130, 21319091, 65476994, 32889732, 84826578, 126900073, 40825027, 96346862, 111120039, 118375898, 55414406, 123723501, 72517466, 110063589, 96316507, 81300843, 95509934, 22232750, 63562378, 128975621, 7362140, 97664279, 91539690, 36303469, 62750122, 23734490, 25828453, 104818322, 90190828, 91259619, 32341555, 33999405, 85635415, 33743082, 117472532, 117816554, 131283863, 57770480, 55859751, 53386119, 14140530, 6170371, 47437651, 13439234, 125807791, 128367717, 40032071, 80462901, 97826963, 99810504 >>,
       << 51853027, 11668101, 73396464, 6468924, 131576392, 50791799, 116781357, 68880796, 53130838, 22656807, 67397901, 109220414, 73671772, 51823259, 101703667, 99163144, 100154583, 69786969, 93334597, 70031796, 128275761, 63199814, 126519881, 131512328, 82688042, 129784392, 22737897, 36485631, 130441288, 33632299, 81077021, 120008566, 132201760, 34201583, 119385836, 2550987, 101188294, 32991997, 91292327, 125512498, 106879465, 101902998, 87242936, 90709111, 122014323, 83577845, 48348794, 11191711, 69812205, 128456618 >>,
       << 57343730, 83427480, 94929028, 43487804, 55980592, 107374460, 11633669, 30809400, 89552886, 40224473, 36651195, 6314940, 114097733, 75356036, 130864552, 72508757, 30582599, 93335443, 88016489, 31586172, 116611986, 13622672, 73076631, 33228814, 73075582, 3712369, 16281297, 53021643, 77752617, 99482393, 25583776, 35950912, 62936837, 56482582, 78600182, 9142510, 107978292, 18148921, 86624306, 111746841, 106030081, 123269790, 27312108, 66298133, 129594753, 66281388, 80861860, 130116535, 105367526, 33246036 >>,
       << 84776987, 130155161, 81862254, 73958578, 108320815, 316553, 12221724, 104138947, 90388736, 117663013, 21173169, 21467181, 124873474, 107347143, 3731650, 10305086, 51748416, 28865037, 12858086, 67266464, 102593639, 49266436, 24210268, 4171405, 792403, 84179072, 20574187, 32274031, 77838256, 13342070, 48830077, 20388009, 29024462, 9824222, 124578298, 26151974, 32529801, 109211444, 110859834, 53013046, 85518131, 101986726, 92037563, 29105235, 91118978, 8934597, 39069274, 103082345, 653733, 79677961 >>,
       << 74264439, 23814675, 10676951, 22543416, 65100177, 6107115, 24641164, 32803655, 16400494, 73720984, 79833283, 122827913, 57236768, 64948835, 25138679, 4692831, 111903205, 15085657, 24552779, 83540488, 46665326, 81120550, 2438447, 120469237, 113839409, 127316293, 32867893, 13110817, 88997981, 103788322, 61270323, 65224158, 85309314, 42976532, 53533139, 121339363, 77214802, 93615239, 92510643, 1844317, 1047240, 93839163, 765466, 92645326, 14119550, 88068079, 78092454, 85745565, 133906974, 100907083 >>,
       << 100486195, 10627691, 127670249, 62131205, 50495141, 116610974, 46003616, 113131481, 128779846, 118591402, 28530039, 110169766, 101704889, 23375878, 126031924, 39463487, 114076477, 41460853, 71081599, 32005288, 34517935, 133034969, 29355901, 105247901, 115946455, 68493051, 122093922, 104437140, 64553293, 15264920, 50025368, 122560297, 9761723, 41958630, 38208861, 96473377, 66144246, 40861910, 58433456, 83054797, 15471133, 15242647, 62437564, 131045987, 84068095, 7862793, 120515341, 96037002, 92603567, 74148525 >>,
       << 60692728, 1448855, 17901200, 64777864, 18875252, 71543241, 129837174, 25014896, 121616509, 4453175, 113248368, 34160502, 7144245, 6252805, 83650470, 31865362, 88152697, 133045159, 98351534, 96501633, 69749541, 1297922, 115567847, 116711727, 73191073, 125237488, 97588399, 27126137, 37987941, 84167865, 95750444, 76222461, 86102357, 15305128, 23987554, 112390642, 27500570, 22512506, 15200956, 51061730, 89397815, 91437604, 1693674, 3356404, 50285730, 115577706, 80571364, 116827757, 95319926, 28815871 >>,
       << 23883836, 35607778, 93669747, 10211263, 73334481, 31331290, 18633763, 91703065, 98787931, 101217711, 47016900, 25085594, 95482336, 60514507, 51590666, 21498636, 48445346, 19804555, 87985170, 116627858, 5762109, 118655960, 22015170, 11845765, 29560456, 14992544, 13251070, 58606568, 62722957, 75698732, 46482605, 97381222, 38941046, 22229718, 71018915, 128119980, 121514910, 100007334, 28870922, 22476811, 119525903, 51845608, 66317977, 91218831, 3566476, 13624971, 100569338, 101664263, 11199291, 53806725 >>,
       << 59852264, 67851983, 14873566, 15158518, 107804313, 58117133, 132501896, 123883933, 62851645, 106658196, 111311659, 99585570, 72077282, 55221804, 98898987, 18213263, 127920896, 80235727, 947486, 24094550, 42930699, 12864861, 44706953, 25340580, 68075367, 53281344, 117396605, 34438867, 101201832, 22721053, 58023698, 59381074, 31388411, 104651394, 2112648, 22901851, 22966864, 5475529, 82515948, 76956727, 40113166, 11229911, 64871111, 92042419, 108302936, 124965995, 126543248, 45366754, 28013349, 85995509 >>,
       << 115042047, 3107939, 37971974, 126892638, 90423696, 1600631, 48454479, 106292505, 26492746, 10415789, 81649257, 70049021, 37716777, 104596724, 9966994, 8140120, 89220347, 45998771, 3686780, 60043470, 43265342, 106752156, 42913287, 352830, 70815655, 34823837, 67350535, 42937596, 21987097, 73517562, 39086001, 55413189, 124699927, 65684585, 59939084, 8359717, 31230435, 104913853, 66648945, 67673602, 33621991, 58540931, 60677720, 81869007, 66053575, 6645259, 98493875, 931114, 75045497, 87919442 >>,
       << 97452413, 30497194, 133706181, 3180485, 87296766, 60331684, 52707754, 36587978, 88567508, 39475498, 111505117, 5414009, 45599465, 125327672, 68442573, 31177793, 43208806, 43979536, 96353050, 120231977, 1044013, 11302574, 66780112, 121167737, 21933938, 59306246, 22414082, 61010335, 86065894, 79851895, 131788504, 59416965, 32530972, 124801999, 97319167, 18461026, 73618142, 25152165, 75793804, 3462647, 15811498, 113648970, 92557186, 73436356, 121839491, 31710030, 17506836, 1460580, 48453476, 14487467 >>,
       << 12078374, 100852071, 21159443, 8484027, 110919817, 25941270, 34308591, 3716272, 57334813, 120177366, 26232441, 114062504, 51452592, 71694209, 4165325, 9797356, 118889385, 82939975, 80065964, 5307003, 48838709, 3955424, 23994123, 40647686, 5564319, 53852145, 42251486, 8618920, 8877598, 90517518, 62956668, 85635854, 95731753, 111658584, 36663600, 114871717, 127636173, 63702238, 107638861, 10420650, 96504590, 11907190, 61859378, 6579870, 89696817, 52731058, 36442330, 72580806, 47196820, 126051968 >>,
       << 108984349, 115132950, 59046840, 76066599, 58469295, 122454777, 68479914, 74645277, 54430519, 127792532, 26205020, 84658540, 88229876, 12021192, 21948303, 120022087, 128221763, 105418403, 106457104, 34174038, 111328088, 7517599, 60106858, 99089739, 88616493, 81089649, 3387634, 41326387, 85190669, 39965018, 72883547, 91904246, 10770967, 126169182, 33078308, 72800866, 131890804, 88267503, 69956373, 16169254, 77517348, 8380663, 122663459, 16682866, 13394719, 133787474, 101074487, 127349923, 113349014, 36825952 >>,
       << 110185518, 121975145, 44998937, 93778061, 54609754, 67088403, 106800845, 93308514, 53971244, 62373944, 58918645, 55847042, 121080389, 9559882, 78446428, 115495927, 45409615, 17347145, 35966906, 75765148, 53567083, 99024967, 3890627, 12943056, 64953226, 5235905, 76268457, 20572697, 106051875, 12691278, 60377907, 56662106, 41127483, 44440318, 10079941, 125089052, 120728399, 64850109, 116769648, 127188723, 62639578, 101788360, 107177418, 5385077, 17305539, 118690085, 20477653, 89319303, 27599959, 74506787 >>,
       << 563235, 33766839, 94485064, 132228075, 46977115, 128480202, 30870477, 40981193, 60682004, 67753320, 117303022, 21765120, 59113227, 61800394, 88196958, 18251582, 43298009, 115700747, 25447216, 97781417, 19967361, 7961621, 82848396, 123132167, 47420908, 85377369, 78927546, 86480891, 92572715, 24506298, 71419313, 35939885, 70348128, 75702617, 74575233, 63659648, 105205256, 31637859, 48420509, 95127293, 67381500, 66954632, 23441346, 131328033, 61549514, 128488881, 23004548, 83134347, 81561957, 117629425 >>,
       << 127454481, 25524774, 28851485, 84372026, 97274754, 45560245, 94031239, 63430999, 119688547, 91866885, 84156648, 2133562, 21932394, 93956132, 120949181, 34216939, 4028257, 120028204, 109464946, 82195862, 32571755, 77218976, 67515432, 53805725, 89386081, 56866439, 26232612, 95813660, 81393213, 107362113, 70935218, 41383995, 102782696, 51556281, 38410672, 71634077, 38385957, 35778035, 18161694, 90909574, 61057327, 33347998, 78589332, 74791051, 31208127, 42828222, 97017466, 101843841, 52733960, 106845951 >>,
       << 90870095, 46547161, 17565175, 95309715, 32178190, 80907857, 10393927, 74232291, 98387327, 74203213, 55875906, 88786831, 60931333, 54393234, 22283045, 105902354, 130354272, 20873661, 63528090, 33410601, 44760311, 130635396, 131617202, 116302460, 30299341, 111459220, 31497452, 115009506, 41840744, 120118711, 399025, 126040732, 52402501, 84660344, 21211445, 7586107, 114366881, 14007028, 55165017, 56925332, 26096178, 32996518, 36261563, 104628683, 7932354, 15661988, 35138633, 92765456, 117779728, 17876801 >>,
       << 12330072, 50250991, 53466649, 92571770, 26339581, 34282692, 118412090, 92480740, 132197642, 46086149, 23763606, 130498854, 117261551, 55781202, 28424694, 53841648, 22995157, 107335391, 116600618, 70890993, 74706226, 56316430, 24420564, 119036926, 29145284, 26166856, 48913920, 61655609, 4315707, 38025542, 37035772, 35748154, 48829253, 48730400, 107268501, 96180660, 15729422, 99347495, 121837501, 118652333, 87564351, 126606983, 41135416, 27297976, 36358928, 116938914, 38988973, 125361415, 19770026, 11281365 >>,
       << 10401359, 14126805, 62704992, 45571477, 35586189, 119374397, 77291103, 35564566, 39329526, 133093881, 76185885, 44620660, 64162953, 86106714, 38764617, 22374171, 102718067, 109112463, 10878787, 84795600, 74385280, 71333850, 96447901, 40169033, 24109775, 114929762, 83947812, 103116180, 40299522, 50810189, 31895103, 67869489, 14718403, 120692794, 49269648, 10011884, 21665427, 83757290, 14930846, 16510980, 131359224, 122118001, 54743441, 36656302, 100989592, 65916903, 86125013, 81933316, 23305229, 121074518 >>,
       << 33779291, 88667926, 51995300, 38691398, 23895240, 78736930, 80024887, 117902518, 67257605, 132969126, 59345636, 23290727, 33982057, 59180235, 97769555, 27420339, 43380330, 28777310, 87485015, 121791176, 83452683, 82989654, 70908858, 118400495, 66550843, 50285636, 102632752, 86590200, 76493298, 108982398, 15871939, 48336314, 32194198, 114630951, 281871, 8208124, 62373356, 42424129, 108652075, 16002695, 35042983, 49470496, 131744392, 126684055, 87364234, 10105843, 106963139, 71005505, 29560278, 114975219 >>,
       << 37307041, 64438871, 118573753, 76347875, 23813199, 123131523, 92256452, 120485217, 31488594, 6538640, 45580923, 128561878, 62483395, 109087743, 119272683, 74853914, 23020527, 34906728, 43524373, 99341283, 26383160, 133901264, 10230032, 3450881, 97202907, 67534621, 12319855, 18832631, 33687852, 54291333, 131492069, 40246536, 121344776, 127525889, 32025954, 99695108, 64209875, 71816237, 85892945, 91342476, 110849377, 131329226, 51529903, 126133762, 22547386, 41411338, 27593567, 99962296, 6368071, 132578396 >>,
       << 109786083, 85320770, 9530996, 123603276, 36057743, 84812766, 55802725, 1777886, 57146381, 56467862, 98835427, 99783632, 79233826, 52245119, 15331943, 97360708, 3554750, 50683282, 108582490, 116087446, 79850547, 84108285, 55461496, 32527071, 100656790, 59844182, 122558863, 41541933, 81488404, 13749243, 118239376, 108991603, 19734722, 107237231, 115199176, 106810642, 8571345, 69641917, 122522215, 65912246, 80224792, 128278880, 93959594, 84399594, 4962577, 51775493, 45387787, 1201814, 57007723, 10405441 >>,
       << 114018535, 103715845, 35736828, 58756586, 11210481, 46975704, 78021881, 1206445, 13740573, 14425868, 120848556, 22104309, 42737757, 298696, 18628500, 97596044, 133001389, 25637038, 10924873, 55742620, 5918992, 221153, 122107817, 34134172, 102212151, 7073706, 25131787, 122187051, 131915192, 64504742, 22153640, 74883001, 124601815, 108898260, 83347064, 72629713, 55784101, 105924973, 133550712, 129149688, 115434173, 68643971, 129107263, 30445367, 85747908, 17940113, 15142455, 124218940, 23172968, 8063521 >>,
       << 74381342, 52493989, 119261055, 10730487, 35470187, 100332159, 94223022, 82825661, 73550771, 39642117, 18926031, 49919017, 4923951, 114147743, 62021120, 83010605, 53019962, 102389326, 51100273, 82931320, 81136076, 109308793, 85449749, 100992404, 129506415, 60754811, 67814172, 117453446, 35066869, 22001865, 4351376, 125015114, 8275089, 86883337, 9052828, 38375209, 11378618, 37348037, 112494268, 36196702, 18309304, 34546060, 52647788, 1857637, 86119272, 63845445, 29908806, 113036627, 65543564, 22760629 >>,
       << 33110296, 94698200, 113271808, 71572966, 123125479, 56792623, 9090527, 96422403, 131500570, 47508354, 77687266, 49420855, 22771003, 69634711, 94573931, 124367079, 113153180, 43225813, 99303349, 80392970, 95118451, 116385608, 80479954, 36676411, 61331770, 130900667, 43442056, 88543180, 63154539, 93620777, 58628561, 28634020, 120177359, 101135969, 120483166, 65736846, 94264819, 102661425, 81712332, 67624665, 22875600, 79595595, 30819352, 3854030, 45635936, 42196926, 66962901, 64137343, 77145866, 62978834 >>,
       << 88594090, 110165189, 80640484, 86075491, 71758455, 113899531, 111644502, 28048221, 52338563, 59536044, 58324110, 2129911, 62954347, 41860223, 96622108, 83984686, 13382179, 5417187, 49522558, 78736156, 29315589, 81234500, 36586986, 97947170, 90281925, 71871634, 13875009, 42474410, 596181, 103600080, 37680474, 109697212, 113679112, 30854702, 76477332, 7472546, 130894597, 31726644, 45768263, 130605193, 108513476, 58203606, 99599568, 3411363, 117383155, 17900332, 71234581, 47723081, 103011928, 74026266 >>,
       << 84915983, 55004419, 83077045, 84922909, 129363103, 51414361, 57114327, 96192138, 2023781, 114701755, 82866241, 56256527, 28384236, 47946109, 41238955, 90800071, 62814294, 121762554, 123111104, 52720160, 2293930, 121702510, 65252581, 43842673, 113448945, 10990767, 106998171, 23006680, 11686682, 7642419, 11892045, 67163720, 39052492, 17385304, 52267053, 22172042, 89024690, 18358026, 50961074, 41715067, 112536241, 87966334, 38347648, 122792620, 13929531, 70651805, 3132558, 117635010, 105368282, 17536319 >>,
       << 114703192, 37235091, 46336311, 78172138, 39378747, 8171886, 67338280, 46847338, 131891406, 105519026, 81408918, 84986999, 31424788, 43171175, 54395717, 50130459, 32266307, 45146299, 21136281, 107522248, 37100439, 86021452, 32772218, 63166821, 103734529, 60821675, 102513477, 97964998, 126864424, 79283715, 44406189, 5109312, 110455399, 60030521, 97003969, 120059024, 56016616, 123634402, 91510166, 124357584, 48656813, 103809505, 103893674, 43317940, 61572033, 120265987, 29998872, 65208435, 117505400, 115388870 >>,
       << 33823840, 75179486, 109040875, 100594111, 107226912, 97542330, 47327826, 97632715, 123545381, 100651488, 20764786, 44326480, 10207061, 22879207, 22888482, 126589796, 44420400, 125924595, 109759053, 99921113, 73928378, 111326862, 38982170, 56278660, 61467046, 106449340, 79534224, 113508202, 85929218, 6895902, 11044911, 88539627, 66004771, 108103616, 43569866, 103731282, 22803247, 114366944, 21179349, 114342489, 64464062, 79052696, 100866462, 85166003, 121840018, 23509020, 83371431, 36742242, 75511951, 92026718 >>,
       << 102110877, 113750239, 133152745, 57459244, 43990574, 117758641, 21757837, 28054937, 105567364, 83775094, 53339265, 66619106, 34198040, 91085999, 117229092, 78490628, 127534864, 125570102, 75663847, 82753361, 7078019, 19086988, 8082664, 110049498, 30074237, 89224381, 69391503, 45556058, 36132077, 5106640, 58741281, 123673, 7898708, 75198253, 35195672, 101952878, 12036141, 45968050, 76551083, 95898389, 11025737, 126345166, 17301044, 37965971, 19260534, 55680314, 75729920, 99293697, 42933409, 63053550 >>,
       << 119311835, 42971623, 29712606, 112361255, 93244958, 72928246, 45729151, 9286610, 94914201, 133303772, 27073908, 90692922, 126377868, 81640859, 116869676, 64702925, 50347225, 94681595, 33240062, 44789719, 21612402, 82547528, 38160814, 55999743, 9438607, 41915246, 17561180, 97041585, 58302323, 100372995, 22492069, 2921323, 36389052, 7992771, 68601638, 47535503, 18889443, 3009431, 53401529, 106113004, 33026667, 27446601, 35361178, 118802011, 54709401, 10231363, 9254020, 70760937, 80372034, 66864596 >>,
       << 70541755, 66575519, 25347748, 60240079, 19317021, 69964939, 24099882, 87336414, 51324520, 121055541, 46886056, 133761391, 80964469, 119870052, 111450267, 25312636, 88451051, 29328191, 92817407, 68127411, 5511899, 38501080, 13745187, 95549384, 128103904, 82271585, 8852560, 64553778, 11412383, 107971225, 118690165, 108098939, 51619059, 6478649, 133195391, 32911376, 27156596, 132260259, 111168790, 99050681, 107827235, 90915707, 31058940, 8208127, 67726720, 109414548, 50157791, 39174862, 37765029, 11655092 >>,
       << 71020098, 87255618, 40448101, 33527724, 56323020, 87602773, 107956727, 116100883, 57698224, 7277491, 89250801, 24257755, 90863194, 2133134, 84619065, 81187175, 123215946, 26738390, 11698661, 29865876, 63246853, 122217870, 74266046, 72516135, 6479940, 98134800, 21252809, 91825525, 121937464, 8967633, 4216463, 77893509, 32251899, 124795603, 55768027, 65165778, 97289991, 131055676, 97066572, 125064312, 55458165, 66930451, 126103269, 61429471, 105108912, 62247131, 61058248, 32234816, 114529552, 55839647 >>,
       << 45911599, 102709401, 128061517, 61222108, 50663857, 41762103, 47926533, 46787483, 40103612, 44402470, 82876762, 118866606, 7807790, 27920954, 33580483, 120730772, 129216570, 67681203, 14874914, 82326549, 44402396, 108169105, 115543651, 93390005, 33570307, 27117666, 48080573, 103551384, 99197466, 96894033, 14903439, 14479230, 121029847, 6780935, 18751567, 51246837, 83787014, 27423200, 77067592, 42296588, 49857029, 27571480, 31546441, 110405524, 6619118, 72122731, 82982639, 98191474, 100811957, 18158871 >>,
       << 25788686, 92764245, 33485845, 25312424, 87617485, 126996364, 117947609, 11038736, 27618652, 49019460, 91095582, 100019995, 131989363, 9372830, 41785474, 130701855, 87889152, 69796106, 42265294, 45145632, 100221978, 105423448, 3824113, 62345485, 3065267, 19227517, 50535131, 33607993, 2330551, 58004158, 18604531, 107411856, 106789254, 56718559, 1906662, 51741901, 59057999, 37774348, 96274558, 14243671, 42926346, 84858086, 134093544, 16548517, 100173404, 110716050, 39856452, 41031655, 109382949, 68054424 >>,
       << 64090572, 58650387, 21097223, 14409940, 125164128, 125662842, 121395805, 131342789, 56380241, 128739457, 38339185, 75495736, 132079715, 32840854, 98617891, 132707205, 34222233, 88704837, 18228078, 60822899, 93585090, 117943864, 112109244, 119652105, 77698494, 60882730, 33453525, 7319131, 23389437, 78266692, 37832433, 7204820, 58623923, 76072670, 43914897, 110736727, 64154172, 123242300, 22665997, 46288555, 22512176, 89482460, 4506659, 21163870, 30721069, 99391850, 107052992, 104016494, 128551630, 48482724 >>,
       << 68081576, 83215525, 27681754, 60928223, 62021607, 103134298, 14986296, 21583288, 50229569, 73309452, 24258066, 72076657, 35496236, 71232268, 132387525, 102879300, 75073253, 80877722, 119992215, 11359161, 79422104, 89912043, 119499207, 111031504, 96411940, 79117156, 128005735, 128964752, 40286246, 111421026, 80980319, 48081688, 127734817, 11079693, 51552098, 91093347, 97338524, 44803688, 83878124, 78165369, 9022068, 100547881, 94874373, 94004880, 78380036, 37084158, 42086291, 112234325, 109588732, 52825914 >>,
       << 88155725, 134187268, 39353426, 134007916, 40067637, 58057084, 33745187, 103006101, 43141564, 19378307, 31978253, 110684852, 78407149, 792562, 4049656, 34605026, 9737536, 129994534, 49714418, 22800239, 40689313, 117175082, 20966286, 131304293, 117580936, 117958208, 114597002, 98974016, 70641323, 50423032, 66506899, 72255435, 49053656, 44323220, 34312208, 66264701, 119531544, 1252986, 105691495, 9278000, 67391588, 78909615, 63072408, 102286317, 65507352, 80412028, 92273809, 46526560, 102609262, 6046768 >>,
       << 16768494, 119895393, 91919772, 40434588, 50432382, 60589493, 126015137, 5836858, 100476769, 125267888, 82686915, 91143239, 101122892, 30670085, 56843764, 65779108, 19227061, 101840439, 86124803, 127916913, 46132261, 121292245, 5967458, 99710851, 17203328, 121814219, 67579774, 93640862, 3739154, 7690104, 107032844, 92770259, 41552121, 89393215, 10296889, 61931577, 64902028, 120837428, 95440266, 4355626, 111220268, 85261238, 66476298, 32388547, 36218615, 94093803, 114167676, 56822104, 5756988, 90317902 >>,
       << 33311504, 14206393, 55513178, 13118995, 29737286, 89069920, 40006642, 1688036, 100197182, 65407960, 78840225, 82957679, 17113119, 107628056, 91970192, 100093665, 11784695, 51719617, 118815234, 35996468, 46982946, 64616637, 43434689, 113149799, 23821893, 65470834, 46346849, 38732723, 86919001, 24049430, 96308965, 67489764, 95513435, 123693627, 89474876, 117302756, 27007108, 116662589, 16844607, 102043149, 75369753, 101259645, 53635092, 65751370, 92243268, 120676910, 67393840, 45426028, 123537505, 12121170 >>,
       << 128778141, 47654926, 91275458, 7010108, 56761343, 121771671, 118717190, 52514232, 69936649, 125565640, 68194726, 9426966, 46644169, 48126969, 99685600, 62826785, 14738667, 92954992, 43634347, 48963387, 112185994, 55818452, 90911440, 55888275, 10865039, 115374120, 56555055, 55644387, 75118701, 132306962, 78150568, 119653296, 40468810, 131580840, 5791334, 75923366, 32147005, 56448995, 125389170, 100162517, 32075796, 52077771, 33673104, 54671199, 85795550, 1899314, 45853489, 76326167, 118461675, 49727108 >>,
       << 42088474, 16028086, 93362177, 55474960, 15645371, 115912929, 121670045, 9630297, 29404895, 27789808, 78787469, 44858411, 55744126, 132091125, 25216784, 25147779, 17676321, 35003862, 121641422, 49855194, 124970973, 10017969, 68553022, 19943505, 50089087, 53006139, 81469018, 54236157, 9043051, 79652706, 17268353, 10941991, 127345152, 19505102, 86065653, 95163418, 57667535, 121271187, 76169677, 60538837, 113503199, 99197060, 119719699, 41861174, 74899260, 112676667, 101980136, 93914675, 117756655, 52054028 >>,
       << 77810564, 65241100, 74282265, 40825346, 70544092, 64657363, 76647503, 101155106, 111035274, 68111170, 84218004, 81405321, 132929518, 54808145, 99257471, 26601541, 11445367, 76726036, 57023400, 124784130, 30127432, 7845715, 46641264, 21748148, 66392224, 84151089, 6838426, 34879264, 95109556, 27496608, 52167903, 76598529, 117447688, 111505153, 132772011, 24589016, 24217029, 102262872, 46646650, 109213449, 75618104, 98217136, 10546982, 56634012, 33613442, 17870704, 31549305, 580409, 126337998, 16173422 >>,
       << 18004380, 64783790, 37791347, 54407372, 78706625, 123039314, 96434088, 102831051, 1339690, 14843978, 65479127, 52405728, 27353505, 130597418, 14484665, 101085517, 81327713, 12143590, 76593769, 110796108, 67432265, 115730396, 57075725, 32711142, 62638195, 133707067, 91559924, 87454338, 2278921, 112320757, 70352288, 48696977, 89571134, 46425712, 30363029, 109025587, 52117623, 594718, 56379658, 105779248, 20120034, 23323922, 25856800, 1620122, 55462526, 25308514, 46747767, 55992782, 63142719, 27660273 >>,
       << 86056814, 98906044, 47350072, 65811260, 61038707, 50158970, 52558707, 83260858, 98168267, 38833388, 22307160, 102857908, 81602472, 69905597, 41525356, 107426215, 8708607, 250607, 107274770, 39992670, 118094493, 1127403, 112487331, 130774091, 95285901, 4742547, 29137054, 114775616, 99924103, 21387227, 62917740, 27278333, 2478488, 29259677, 100985042, 17107524, 41411266, 102943579, 70298008, 23369281, 95220542, 59658335, 40883521, 116081339, 93249663, 132467304, 51128509, 27785580, 100414944, 106542448 >>,
       << 43604277, 17089237, 91739250, 97257858, 30771866, 105635597, 45840809, 112615756, 55453104, 10853327, 15560651, 74731000, 69102268, 92677593, 101038543, 20300013, 1726937, 129565978, 32592736, 112045577, 130942187, 72483315, 443707, 92171652, 113154740, 57615305, 115017553, 110632718, 90274723, 94431382, 96619879, 78207548, 44226782, 67857232, 89415383, 132200192, 55442497, 129732652, 18621419, 88760377, 9006996, 75454788, 44941574, 26826194, 123276103, 87166075, 129892257, 89204568, 117389672, 8599994 >>,
       << 95317535, 13821034, 12601335, 88028208, 124838281, 21955229, 67446635, 102288480, 10549791, 62630385, 65018642, 106725746, 80919385, 4029218, 108654521, 126064887, 28064640, 85570226, 52520332, 56894727, 51665474, 52780310, 30673472, 52651319, 87366566, 96642403, 125965006, 82768926, 40764409, 64446169, 23513181, 68064258, 9883485, 87247431, 33052900, 21255444, 55585707, 127729242, 113957561, 43804537, 78049285, 69178713, 37565003, 45135718, 1365118, 25836198, 26984680, 131154576, 91787272, 65945949 >>,
       << 82021866, 6610003, 96250944, 23224038, 89636374, 89123393, 80694042, 37323176, 132592240, 133301609, 4142791, 111750079, 30187560, 65842904, 48483068, 29354443, 46309968, 84952013, 92408254, 26566437, 89428556, 99625266, 14449320, 88603880, 26960177, 20844067, 95360865, 33679724, 99272723, 46029957, 16930815, 113470900, 92512760, 60158229, 127889919, 92430757, 44294849, 55640081, 60616475, 111463439, 13172619, 78121087, 84739630, 45943211, 6366784, 109158146, 108211452, 111176993, 105182783, 98191217 >>,
       << 33490657, 7316826, 49546957, 54064021, 67286732, 61038841, 74551091, 8266152, 61214195, 105989911, 9000500, 16884813, 94087813, 115175390, 103732659, 53420935, 44260004, 20369249, 38123035, 113979742, 114664400, 83561987, 39206329, 106767945, 72720610, 81018177, 9697093, 67175617, 47719772, 21471289, 107283233, 97070004, 80449200, 128339027, 67824476, 31938297, 68139448, 67482652, 120723610, 22716122, 122047257, 533881, 121726735, 95702880, 9910236, 44024238, 16214030, 37116183, 78799407, 62653508 >>,
       << 59286286, 66659467, 55519957, 36003469, 77087174, 11979420, 33029894, 53681551, 97426290, 11394849, 54788966, 115040484, 47251186, 59118005, 55556869, 112628133, 46490192, 18477228, 68201923, 121094732, 133562690, 22350402, 128688874, 17968754, 94373624, 127061405, 108039423, 100780581, 51905894, 14565419, 112700094, 76168135, 87981337, 43995164, 88120500, 36090285, 95084478, 124683544, 75638866, 89444020, 109334421, 3180683, 119369265, 115080696, 128445139, 17587923, 75527424, 40925836, 75416798, 114870481 >>,
       << 35371791, 77900131, 104514816, 39795905, 25462697, 90047071, 114414866, 99949357, 109306640, 34363120, 99368600, 115209067, 42928178, 61474186, 64459130, 111891382, 108553638, 132439635, 54932527, 115889118, 53027800, 10311172, 96882355, 118300929, 31905321, 123286628, 72790574, 71948183, 113312101, 58643668, 46071748, 83930900, 45625492, 2208656, 104279629, 98891750, 128394798, 118325175, 122894000, 4558338, 94896478, 120097064, 78198006, 114194495, 12133813, 93608753, 49325557, 79770683, 46530441, 96672056 >>,
       << 53724544, 99967282, 59538978, 69198409, 25166910, 19011547, 126982007, 27955815, 75741859, 93545189, 87398934, 130590355, 99488525, 105267466, 102542637, 48934924, 128751559, 125603617, 101574999, 79343175, 101551139, 25269089, 51489039, 108322636, 2048834, 123974560, 15706469, 77735343, 104716306, 38222119, 11671617, 20700975, 85512494, 61696480, 4119270, 55709534, 51386814, 14237247, 75419724, 104018902, 43913260, 90107708, 30835265, 54997405, 4608723, 94687015, 71276715, 66132106, 71794136, 5581866 >>,
       << 133579642, 125635083, 58833120, 18228398, 96242, 89783778, 18770973, 3901411, 121115565, 115147572, 121223162, 29996945, 124341491, 85078826, 95557146, 28811729, 73897673, 126140307, 73703327, 13448330, 126634817, 8951175, 21198792, 1530962, 101784246, 122534936, 77556403, 82920445, 57300690, 53152639, 114410837, 63986391, 57527109, 131332262, 29506361, 59441728, 21997181, 126736177, 2342376, 26755106, 86821161, 59565595, 30003728, 39626185, 103930798, 33584069, 67550050, 30036422, 132463104, 120234558 >>,
       << 50376647, 48532759, 56442238, 64828923, 129023, 61740239, 85979751, 13507733, 77753029, 84413093, 93485258, 336935, 46641580, 54442987, 88496806, 115040072, 43751845, 65818175, 108116251, 38520806, 112607792, 115693566, 113617134, 26009611, 79047966, 54765985, 65648380, 64198514, 4559011, 42633826, 34982485, 52491677, 109884147, 60477351, 27008204, 80669773, 32747613, 10186407, 52676442, 33723221, 97415650, 80126954, 756664, 79234573, 127006639, 99682880, 133488532, 45864791, 36312075, 132571333 >>,
       << 57137436, 120026291, 73786380, 87751877, 71495098, 66458477, 100161830, 129777900, 32358124, 96459831, 88728841, 6721388, 101341533, 47484464, 69455548, 129937040, 67459666, 57546525, 71645401, 16711711, 7802521, 114062908, 21585967, 44361087, 28500488, 131670334, 12686205, 18333930, 129870719, 79161204, 107482111, 23635392, 56696472, 112624809, 118406568, 56314154, 17150326, 42444556, 36523595, 132129133, 66483119, 104334833, 68235099, 120069325, 6536895, 92129825, 4384265, 75638484, 43993782, 69213478 >>,
       << 6945612, 41051169, 1896401, 114006697, 12163283, 104633524, 39444065, 51822188, 16394720, 111666843, 42343514, 81657586, 105691322, 62658976, 103155248, 98423954, 1744307, 5487533, 3432671, 9440816, 122992416, 77833796, 90130242, 7461913, 129677955, 119315564, 124180438, 4687171, 60497928, 28136719, 69666060, 67976972, 125921006, 42980007, 34578937, 52678885, 59193766, 123168227, 101774125, 95172978, 31110667, 84665098, 41477329, 97772798, 66591702, 37991300, 32750682, 113353494, 53940074, 101097822 >>,
       << 76833621, 31135441, 110096285, 77005743, 85392984, 130112916, 4353056, 74420003, 81118850, 37083607, 14043806, 28275360, 14403243, 77091587, 71286959, 42675448, 127012306, 77207455, 50729345, 66815040, 9084333, 70286575, 29398396, 19253744, 14657987, 26994921, 128722419, 1781382, 46996713, 39432235, 16891656, 125159995, 88623352, 72687499, 85550523, 33973071, 87878527, 106427998, 95257915, 23507351, 48111940, 84591893, 9095127, 13900206, 11621449, 129718085, 121197409, 78238815, 88075758, 5616959 >>,
       << 26349479, 101427815, 47428888, 80686827, 40296404, 115402936, 100393398, 1932801, 77554156, 39434089, 22287138, 88829523, 77499021, 37941624, 8462880, 110822447, 24352638, 42079076, 75795037, 60194064, 83409286, 83866672, 99097068, 110116938, 79138429, 4879004, 97804179, 91703109, 30637785, 102050119, 103562395, 18726341, 33138697, 74869611, 72778413, 95255737, 60083672, 91185022, 56202020, 132507365, 62848817, 52236048, 114431895, 57741265, 4868579, 133378124, 84927134, 51974812, 111587397, 22188694 >>,
       << 112950038, 97698808, 70274822, 77475654, 125885259, 42973996, 120295691, 133594084, 112411435, 9533977, 120023361, 27113660, 104837420, 127370909, 111595081, 41572916, 2240781, 86928218, 28514884, 75722289, 82127030, 109804352, 130697741, 63133953, 73834957, 29241677, 71639128, 61892559, 38489633, 38949526, 89807918, 93915025, 87573909, 26095200, 2865171, 70873325, 13411007, 68522639, 26380882, 54689300, 32053645, 21619784, 92688213, 101499125, 76299338, 89188928, 27451357, 85045591, 83682683, 117118072 >>,
       << 91816150, 109916918, 60091423, 94709930, 1144001, 24207580, 51650815, 100946569, 51254963, 32528451, 68424117, 22393437, 117770354, 592551, 63340533, 16429372, 46741448, 125279476, 41462177, 75059982, 10716593, 73944762, 43715243, 15732968, 29858342, 29965846, 110716631, 116383140, 14151847, 10425903, 109079822, 63069443, 68364441, 55695171, 7580669, 45784379, 58748931, 111294459, 60274010, 54491282, 113040324, 60709307, 66208659, 9593337, 79579793, 18333498, 132545147, 94535640, 104989804, 117286661 >>,
       << 109091443, 89240417, 74985134, 74178346, 81439982, 18089025, 102440248, 4478770, 117383060, 30557194, 7928980, 123730943, 20949439, 71224796, 130207756, 131877764, 133006030, 59580724, 42894610, 107887848, 58767682, 36214099, 4495818, 47985750, 67576135, 83784846, 100985621, 121889352, 24924182, 31974298, 91211086, 112200734, 1736679, 28080254, 56055457, 1739404, 50743885, 58774773, 65606069, 71117200, 64716365, 14866521, 79810354, 117026266, 86356746, 22783148, 35740625, 101954844, 80141248, 63370753 >>,
       << 88904512, 124663504, 23483726, 50734981, 43436774, 45849267, 100750438, 118171275, 62456174, 8609309, 25413170, 123940488, 54341443, 37823080, 77334591, 112947925, 55593942, 63971507, 127241820, 34730666, 93685789, 48786580, 12716418, 93198646, 100005714, 41496756, 42460451, 30719680, 60747956, 47835087, 102746014, 23850233, 47706896, 59512466, 96526175, 40325497, 130535046, 108281767, 39885623, 90989259, 108833828, 127390690, 110541602, 69552700, 71382845, 19624856, 131949205, 114899654, 43370970, 18722826 >>,
       << 96677122, 56272254, 87871695, 113230602, 127257289, 81006265, 76966480, 129807501, 6513672, 94918261, 15099746, 109571592, 69877194, 49029778, 127275849, 13989304, 102260159, 124217404, 13827875, 109915540, 15061532, 42234872, 98759195, 58086830, 63931022, 119877198, 33508240, 105675853, 31168504, 72940101, 116044789, 46213697, 10008306, 42918397, 61733044, 57421694, 38500243, 98788083, 56433162, 66363342, 133303285, 4976419, 87108568, 49428272, 8091258, 88720435, 55526925, 100784939, 116186796, 113604665 >>,
       << 132862763, 71411562, 1240901, 130265700, 81674162, 73094456, 27148705, 67646386, 98681262, 28121117, 133209677, 9088003, 115357590, 78234526, 29976107, 34786132, 58239476, 43434323, 94294367, 8124524, 23820621, 101925233, 65077864, 42954810, 68336344, 127919017, 57488952, 6928405, 33369761, 123713832, 83967309, 40157303, 100200796, 100065440, 120789050, 46184665, 50576240, 27212714, 92362011, 32352496, 114636739, 27725187, 104344308, 72542014, 77589094, 20230621, 32777291, 40353004, 83707299, 130401753 >>,
       << 118881594, 48260067, 18576633, 37432847, 103254606, 43087020, 60675850, 7193605, 45500049, 10352257, 42519153, 115907130, 118196338, 117278071, 45264038, 96967928, 63150629, 114518582, 71197944, 125972345, 127868321, 85626608, 17914950, 54013039, 25820600, 71862114, 73003165, 1014183, 110580292, 85877362, 27183083, 107924248, 22305372, 129052262, 36150685, 133596330, 90896689, 99184969, 117286985, 121869292, 19507722, 62275316, 11901518, 50672033, 14777599, 89267211, 70509234, 100319841, 90156553, 52302462 >>,
       << 103736684, 21569430, 96000105, 124778585, 92344485, 68618665, 122040755, 84817178, 50711968, 77847034, 125564032, 62101608, 128658882, 98762307, 33680231, 64612618, 56098533, 97084924, 108103355, 24140835, 127865821, 119758101, 133903228, 28937334, 84905506, 63000853, 3299804, 28067311, 91876039, 74693405, 46243719, 87436474, 133355602, 37461403, 63026472, 75197680, 101659784, 59579304, 100945056, 116804446, 93289937, 24886763, 55459856, 70680321, 12882585, 76611158, 132993255, 116476059, 25395354, 123212769 >>,
       << 16488992, 106907841, 81968126, 20806031, 24005256, 97160751, 76760633, 127697763, 37650461, 12116693, 103601752, 106593782, 95660292, 129253272, 23582182, 125246505, 129188105, 94180283, 29919845, 18723094, 68508580, 101155586, 93577484, 131046, 116372182, 126035423, 102581445, 134064118, 114795739, 52580810, 24887966, 46777235, 32299895, 91966404, 77814810, 33649169, 116439439, 98293623, 12722920, 122330869, 67350472, 48389622, 36852787, 45865685, 49399772, 37340011, 8646868, 113187478, 72364331, 82264212 >>,
       << 22036752, 42721179, 72312784, 120465910, 71113532, 119160778, 123810053, 122988783, 32082935, 11480742, 35068257, 102786969, 483208, 6867378, 119526291, 31171048, 46594543, 54000767, 30153085, 3756764, 27249595, 121410529, 122789792, 21275304, 67791539, 20221589, 57860255, 63732408, 25606598, 43806449, 89622267, 40636375, 116914180, 82191342, 1217566, 41386263, 132050638, 59965419, 77788831, 109162524, 101335588, 73371941, 127670971, 51043450, 48357238, 59462324, 13456901, 57261621, 111175008, 106462277 >>,
       << 67611581, 78411782, 95803537, 58611038, 87811204, 18694076, 12398834, 26132051, 19831895, 104617440, 99206332, 106536152, 49215766, 8010458, 70398413, 56079693, 23168540, 114143321, 72463440, 54731709, 121765415, 71973828, 42107965, 51799273, 39214683, 128904800, 83900419, 28229618, 40004437, 58821449, 51888758, 6783211, 91969009, 91279242, 70310163, 110596151, 117202505, 126588235, 72244794, 23466490, 28306585, 2722568, 77392597, 22816809, 114224426, 48519790, 73064767, 58970194, 23769067, 69882508 >>,
       << 80260177, 106223172, 87384713, 85881958, 38853315, 53024090, 62656959, 125212871, 117456806, 89171529, 28651246, 52738391, 28096761, 10473561, 53234201, 27159949, 32760801, 2207378, 114344126, 74371273, 39394700, 52001975, 5621087, 13841579, 62960123, 21165784, 99887488, 52899438, 129848579, 119743783, 20434498, 69007979, 103278898, 1916830, 31623915, 126793085, 27848128, 94086456, 119527621, 54388464, 41821764, 81693646, 6590289, 69198187, 110779471, 108708476, 38115385, 105077646, 118954103, 89589032 >>,
       << 67056481, 37753795, 76633382, 10836217, 84783786, 12120516, 58130665, 108315640, 134048587, 32150820, 34108357, 114519059, 87509675, 94940844, 29872793, 115218889, 133845329, 91242842, 4639830, 30700698, 126538465, 12753004, 8195748, 95741479, 127607435, 92566426, 13142777, 52101869, 55304231, 31523514, 103160207, 50378012, 57919357, 24014732, 132168567, 100896517, 130338074, 19284042, 70351767, 36791970, 48698638, 112351749, 42701876, 41074256, 9713408, 38937138, 100680801, 357092, 71594665, 85316971 >>,
       << 44465082, 60896570, 82587043, 122646561, 124343624, 114559736, 127684142, 50782951, 20436467, 21856191, 120133525, 77166763, 47244013, 10194178, 102516527, 112412010, 13970985, 85074558, 245998, 68645672, 41902605, 70739279, 57309562, 10710416, 4883525, 51358379, 98128504, 131859385, 103902961, 55642914, 100321995, 5873297, 99290659, 88560124, 106083242, 8071074, 24515688, 116273497, 52273245, 119589362, 822385, 39754518, 56215620, 79341174, 2360551, 85515790, 13945741, 59350751, 35144466, 82206099 >>,
       << 88600135, 45030109, 26743100, 68600339, 111308278, 85121229, 83786700, 14220676, 122005823, 110437899, 96510018, 50967151, 119615910, 110145474, 17998275, 121000591, 41911307, 37239551, 9743050, 129440090, 3208554, 55890031, 52192108, 84085593, 65982304, 73241127, 73061083, 38639975, 42875790, 132439506, 63168004, 117258026, 124809522, 29641833, 113866292, 111093487, 19797293, 122027755, 10221083, 57790593, 46861561, 7513283, 117420626, 23850475, 122295866, 91710270, 36749563, 20518708, 120381199, 28381593 >>,
       << 103909602, 70441736, 76804146, 26178114, 46512501, 35712217, 99661465, 34124033, 113700900, 112133350, 1877145, 61862967, 10236056, 107408124, 9082707, 86199872, 124152032, 2055098, 92209836, 62284373, 101461819, 23023226, 82751260, 69230816, 50313190, 3218302, 22673496, 32733406, 88747881, 88419910, 3427172, 132938572, 46446975, 85724054, 124840138, 100532981, 4084424, 112814501, 57129494, 58213061, 59660662, 12654842, 33900914, 72596795, 45609614, 31404930, 124834798, 29846710, 88188852, 26736236 >>,
       << 104180234, 16382456, 67057321, 102536888, 10815121, 34188536, 61080020, 77163248, 102053309, 42518752, 47893146, 34288292, 98722826, 108767137, 8856720, 22911582, 75552067, 123360881, 107325957, 116281704, 74142308, 93281361, 22257916, 39286440, 101165673, 101795670, 77710695, 23860305, 21020395, 776656, 110151107, 105092855, 24146131, 68134998, 128608401, 90123663, 120858599, 73668652, 9693867, 47853708, 105513708, 87721413, 24293087, 6383215, 68318308, 78720022, 115363626, 134138252, 91276809, 47541951 >>,
       << 18614886, 14852890, 113379492, 59121219, 117163951, 52677239, 73490011, 481228, 16132729, 130485042, 109433981, 21196025, 55976237, 81507383, 57728553, 22312966, 44850787, 129501389, 6105160, 114224324, 43971038, 101903944, 7656567, 64052253, 98874147, 30598024, 132453013, 95624145, 18236300, 37387351, 100641237, 123217071, 80549825, 8503409, 31096074, 119104961, 80635939, 39640718, 32025663, 7271507, 33160483, 109835164, 129414682, 92341687, 100717190, 22651348, 49039768, 6150861, 99571984, 101423805 >>,
       << 22600455, 65275977, 33635293, 80578161, 53342582, 109264480, 20395679, 105807479, 130617227, 32173137, 75316790, 30917564, 67891127, 128886977, 37811079, 39686546, 6344861, 101828658, 122486066, 125039615, 127346881, 130581876, 130119328, 91156700, 112714355, 31134289, 64670302, 86215899, 52745503, 47617777, 34479284, 28251047, 80010433, 78387447, 79439581, 35704220, 20717827, 113142422, 98159097, 75449461, 101671946, 47830152, 98969109, 70403253, 2571303, 25645963, 30167384, 132250065, 3529989, 70160553 >>,
       << 55148305, 85975272, 34179908, 110210343, 12888770, 38585210, 74708958, 55225856, 87961019, 32989642, 111332037, 17185460, 79293564, 87087108, 6282443, 69168077, 42858856, 109003351, 2731836, 44654228, 130808236, 7680760, 101193303, 111383758, 36558491, 125809502, 90069569, 68606405, 114748227, 66515286, 88689855, 14201260, 44906555, 78457155, 3722095, 112241955, 42272287, 15826745, 74771859, 16811753, 122313330, 28374120, 62629273, 65528667, 22870090, 14062349, 7966342, 82448474, 6977413, 64867764 >>,
       << 33975169, 38780910, 34514839, 63152163, 76824598, 92727333, 31072007, 76235681, 14391032, 92853839, 9626418, 63305875, 16760328, 65018436, 126118392, 33745610, 114636708, 95865888, 1326844, 3967836, 26898480, 95297973, 34386595, 47854631, 52946827, 70849955, 91214524, 119408745, 67662496, 92315740, 37183826, 122857095, 127248136, 71129661, 53167400, 44231976, 90490725, 125283042, 65332271, 101242052, 27931703, 64271881, 39429329, 104788212, 37330850, 80379710, 50782697, 54339565, 50605064, 126920143 >>,
       << 659287, 59389107, 18132884, 29410047, 52849311, 50794102, 97926760, 7791469, 103010383, 39216335, 114246308, 118332528, 106693432, 63077426, 35341746, 13896489, 19861508, 896579, 74937636, 14176585, 72911259, 211005, 25898734, 58566767, 69358085, 79753792, 28280471, 67252568, 85819855, 20649460, 47726505, 112768927, 115103494, 17818576, 106101401, 71602259, 91050720, 126717235, 78601965, 83906197, 37854666, 637150, 41088896, 28983650, 77962259, 33160723, 103846253, 48991569, 15699005, 53976170 >>,
       << 2444715, 18351907, 53139985, 81564168, 103905335, 95100185, 44105176, 64847454, 130764772, 59211077, 50125961, 17770244, 92602298, 123216057, 57788626, 56201753, 75247653, 38878726, 127124091, 75016912, 125536698, 6888018, 29129062, 89447980, 99396985, 13240195, 57358443, 26346748, 53738475, 63066275, 70228051, 9327800, 61731196, 42291860, 20061479, 35114690, 111968108, 86909382, 74286228, 9000089, 33352234, 45406264, 32763169, 65429091, 51737402, 118971406, 35920948, 21036217, 81847869, 111395895 >>,
       << 118002531, 127078942, 69141300, 30875106, 101450593, 82312572, 29556567, 1533311, 28077388, 128354890, 83767761, 102391074, 131275387, 48036014, 32256463, 80452198, 49216962, 18206538, 99387850, 93709051, 118443393, 113986342, 53302094, 5605829, 70050732, 87706372, 72115051, 131759474, 46402546, 25260584, 24271992, 80542459, 108151869, 75008117, 112297619, 62812374, 118066504, 31774679, 38960688, 94598808, 116108571, 4052730, 12481192, 11285997, 34085780, 83134632, 108673411, 80854179, 65610353, 112174816 >>,
       << 96610985, 40880085, 61108953, 131301769, 44163422, 36552130, 97645275, 65692080, 27072414, 90189245, 116692688, 87805700, 60334616, 114919073, 62171344, 4958130, 36971540, 102119705, 78982256, 127877864, 82672562, 5348734, 77299150, 131926700, 55970270, 61581908, 71673532, 9106960, 80954046, 41611540, 48934975, 110445162, 106281200, 52258905, 131085408, 115452431, 45149770, 77170380, 64327174, 126944192, 60494583, 31274659, 81818981, 51666583, 12628853, 104662343, 124750479, 4203574, 89029782, 26920133 >>,
       << 103792581, 92230053, 33664230, 2850378, 46053199, 63101388, 27594352, 121939983, 120395582, 53883831, 72670144, 121324553, 113939887, 97885142, 77921068, 12961540, 123817594, 6869055, 69644074, 116130254, 100102032, 2708318, 39371151, 108764409, 14697561, 94725728, 90520239, 66694510, 129704797, 118602391, 42113684, 57621630, 83872594, 85782201, 37300958, 119508422, 28800037, 4254299, 63592452, 114821529, 95752220, 122394163, 21682480, 108060952, 13968632, 120506400, 91899355, 67492709, 88615387, 106433555 >>,
       << 67947696, 61245618, 88819325, 60924554, 107626051, 9174378, 90923130, 96490320, 56954398, 127894404, 123909430, 77332687, 78946010, 13538227, 51969848, 42986540, 67954514, 62088297, 24298530, 31084722, 55053446, 33184936, 41366279, 102434636, 9414613, 15933621, 4301620, 35391912, 72212984, 115294577, 44535275, 59009321, 133778648, 74615889, 123104356, 95814860, 56314977, 60297819, 125231127, 122528718, 14814473, 126284016, 19513490, 51678540, 43982048, 108611252, 64030044, 93179176, 21449737, 73714620 >>,
       << 111657770, 8949082, 74252887, 130030005, 19269725, 112879326, 103374333, 78765209, 112751793, 15793182, 22313209, 114017447, 65839702, 101755814, 75458871, 83724040, 86078953, 113798555, 71676025, 68302218, 49262134, 122379215, 87043345, 22092894, 34662351, 77504301, 128215972, 90431923, 78181822, 8587425, 83821737, 118002310, 54268870, 3467247, 85654516, 71112337, 39218882, 13411113, 96508278, 93373725, 46664121, 90917375, 134135665, 75196735, 104473311, 44927309, 117530144, 49380026, 25944429, 62437998 >>,
       << 95732430, 30455308, 8282800, 94778823, 106676367, 37325990, 28790311, 61167464, 120688751, 55878493, 27273286, 16640129, 71083359, 43065760, 49447161, 75898170, 54164841, 130317739, 66306105, 2925753, 66176031, 110270660, 16543328, 58412518, 100847984, 83517460, 112019349, 34286083, 34261627, 73475696, 95292757, 123744182, 113735415, 12814853, 36370771, 100627643, 40993550, 304210, 641284, 7933587, 100172882, 98547342, 36470794, 4859922, 105272850, 59668196, 49605740, 55069195, 6058014, 19998063 >>,
       << 32003104, 103914774, 115622122, 133526915, 16513789, 6833849, 97520574, 56748428, 41922716, 130055812, 104086087, 5415715, 59664207, 103177334, 133123994, 81506018, 65265699, 21328124, 78425066, 55180142, 70337419, 99399540, 21653151, 23684726, 98378434, 75405680, 67552125, 88814974, 120577926, 44317316, 100550303, 106304369, 41004065, 20651921, 60861312, 124007924, 27666641, 99675547, 35886856, 34711807, 133531791, 79012683, 95453188, 65152422, 77272259, 110438809, 99435408, 80424316, 20025540, 120276461 >>,
       << 115936591, 50309362, 15422611, 106966461, 114446966, 86178052, 123440107, 80068637, 64483641, 92563718, 26159865, 109044897, 55169879, 54742774, 84700735, 110596718, 117714405, 43178224, 133115507, 37025206, 59774595, 98349923, 126117489, 49153916, 68280468, 120975266, 112180781, 61933679, 112248339, 75201148, 94253917, 131315163, 126167386, 89522701, 129859559, 97581481, 32666924, 128144327, 89499737, 65003652, 122109440, 8982762, 122172842, 8031349, 112676801, 94066706, 43300586, 25167733, 130717175, 78781672 >>,
       << 99972888, 93396473, 19176384, 47594442, 86913952, 95824348, 79200654, 7401221, 106850043, 57735672, 93039989, 108257920, 66513637, 61685210, 16156081, 74926415, 43461386, 26177761, 95927469, 53861860, 271452, 103059170, 85252280, 14336913, 63815683, 38852779, 124605943, 30118350, 94038312, 2687119, 34518787, 8223187, 129253382, 124114418, 21180277, 47002279, 50602853, 128055940, 106470606, 7901720, 6273521, 39395203, 16229275, 26974830, 120846943, 13368436, 54896226, 91546872, 53263740, 113645159 >>,
       << 66330771, 62390872, 47261097, 19818516, 64464347, 104208121, 134172236, 80232, 58763009, 14830948, 132957777, 20904348, 118292321, 60113508, 77262864, 133262371, 94841547, 98647603, 92413143, 62909613, 13768845, 58932126, 57710197, 28587139, 99494153, 128511463, 43727499, 1244278, 55087630, 117218508, 106938938, 102149849, 39678699, 23950870, 134161477, 93455892, 61541402, 21110322, 76432948, 96730728, 81535859, 123047342, 3156060, 92281954, 39474697, 28274202, 68682006, 73518838, 84432954, 13514621 >>,
       << 65374870, 121929716, 96541418, 54653767, 61989128, 53370240, 18185616, 125214746, 116045874, 22541867, 113841616, 118625274, 58841475, 4650051, 19305420, 99085240, 46672974, 41877379, 33094693, 127608177, 9645233, 53186019, 85946269, 132072802, 133052142, 31156573, 77115304, 8958421, 42757382, 68487964, 41470676, 133628703, 56506705, 36602402, 118888736, 64759009, 16926289, 45025143, 56175717, 7271774, 110885471, 37951371, 51532911, 108300134, 62732444, 132718429, 119632288, 68769519, 21149385, 131678695 >>,
       << 87694058, 6013383, 91543649, 27402481, 58497039, 83262564, 2877964, 52449730, 93107468, 121876056, 14428322, 42986242, 95298504, 106775460, 94346562, 47099837, 4404289, 89002940, 109137976, 24801184, 52730254, 122176564, 8679434, 31884515, 34543127, 3960994, 94163349, 83729407, 116883201, 132969188, 63252068, 30391602, 12562333, 116116786, 18128260, 20767364, 106429697, 103455253, 90196325, 7438728, 109459558, 109245311, 95591624, 57976641, 51523230, 58928640, 58442003, 54485001, 130210130, 43348519 >>,
       << 38451635, 88044704, 571044, 43529740, 31448787, 98768614, 85218175, 23992756, 37274432, 21041612, 84182687, 130410616, 87500457, 15289992, 92825797, 115754069, 55280738, 131243030, 75859424, 37250918, 29696296, 44954891, 30019617, 94123568, 22369333, 126842137, 129696933, 67186586, 100047784, 58295588, 122606237, 9835291, 62594024, 73839844, 89325851, 1614177, 49082487, 74359376, 119382271, 9097538, 32180102, 130996195, 129790712, 69698443, 4297948, 127986176, 44685285, 60811907, 30111928, 25070652 >>,
       << 15534970, 30008133, 50756308, 104121627, 108240610, 59536531, 115059176, 74883048, 101630737, 125543636, 122489609, 87713689, 75174142, 51653627, 39810657, 47902053, 44593635, 111690465, 49967883, 17902376, 54863092, 14792610, 42319234, 15991042, 4049667, 59118542, 1494439, 133265225, 98659852, 46678322, 89334534, 49042691, 131771928, 66803647, 1127265, 48878084, 129388536, 128438303, 20996957, 83603480, 127005703, 50127847, 4847662, 75447701, 53482768, 71350495, 66130681, 119384473, 107084733, 35827613 >>,
       << 38828353, 12429886, 17006374, 103675168, 25629112, 46126985, 124605897, 90413117, 78742725, 78187053, 112390042, 114201238, 129830923, 93772375, 73304723, 79098076, 58253029, 88020037, 23264613, 125195277, 125314661, 42676369, 75338609, 53304058, 80087946, 20195622, 117340657, 53575423, 33085901, 42096254, 57832484, 3349490, 4696523, 51388703, 86994181, 25110297, 44926188, 89323518, 46417655, 8443450, 49151133, 11729622, 64769260, 107419609, 102188595, 127704944, 78836674, 117112441, 101373251, 59959881 >>,
       << 93252758, 127791597, 48752121, 10140990, 116232434, 78521426, 26945032, 63702683, 117775337, 69924996, 33616714, 78914869, 44905960, 29243304, 8981450, 112086693, 131433716, 23173799, 60980810, 107725203, 26559744, 35851995, 102707596, 116541509, 33712556, 108345207, 116517174, 44859687, 71130078, 86753736, 2670119, 89796749, 8876805, 83807204, 133356680, 66103980, 56788918, 92303914, 21408211, 15032184, 26489172, 125885148, 36083687, 55952266, 102447616, 11969490, 53245660, 37209403, 91703345, 50560759 >>,
       << 10327400, 42928684, 19957772, 125964467, 93940676, 107982486, 122935683, 57919059, 103350513, 45014786, 33321039, 20289477, 109039536, 18943138, 17113620, 113662662, 90616809, 106148150, 35126119, 121191578, 117943314, 103855058, 60351294, 5251418, 99517347, 90799358, 68458821, 12721215, 131563554, 132817035, 323611, 14389631, 36208129, 70870380, 92742860, 14514369, 22524924, 78229990, 96709408, 59422014, 9704171, 82600750, 74943158, 71839244, 36570247, 5846553, 103937385, 112752432, 74565527, 80677034 >>,
       << 118074248, 129847271, 88354989, 33698084, 33052262, 60054012, 103086476, 106156457, 127292314, 40539225, 74330223, 89392535, 102583830, 123119824, 116035563, 86957204, 97630922, 109889459, 98418108, 118340486, 16023698, 108648893, 18221377, 120023071, 53935391, 69165942, 14759340, 65435642, 101210377, 124279274, 80728461, 33519408, 1112124, 97687447, 1906567, 69953694, 114310194, 2431667, 43436953, 69120124, 72724512, 108237002, 79560229, 81607781, 117121513, 1599732, 44251646, 114456005, 87829994, 122014443 >>,
       << 132775151, 68164884, 5610368, 73350798, 16205211, 35939576, 2158074, 25849020, 29075638, 37932567, 95616490, 112656101, 3377210, 45622787, 133408282, 4473656, 74204443, 112588385, 99465412, 15073447, 93264967, 96866625, 119881175, 6472606, 45513650, 50553766, 131657980, 127355421, 95321935, 29709916, 45805059, 128472696, 86110424, 69553400, 96725102, 110541970, 88220138, 57997755, 108764507, 107644279, 79364140, 79228584, 5105170, 85196538, 24746769, 129041017, 14181622, 104407081, 31663794, 134170757 >>,
       << 9192196, 13047754, 55154377, 94174585, 55679035, 76288772, 40729804, 56105652, 2958209, 119414631, 18400814, 128956655, 85412308, 10077918, 21577283, 122485771, 128313462, 118124752, 39005302, 121563363, 57735701, 129223710, 60131841, 111328244, 56643291, 104123390, 34665589, 19352405, 67876608, 15401732, 20002792, 94711104, 91995768, 97185375, 97607215, 46535485, 75964820, 70287868, 115957411, 25520958, 53222560, 104330891, 21299362, 6922216, 61342489, 109823172, 108545334, 35900041, 83469202, 68350144 >>,
       << 110539637, 75161863, 105149026, 112634928, 35360977, 78488907, 120991055, 92642756, 97224711, 43088140, 80372030, 10046422, 113713968, 23107350, 52182891, 603962, 115692933, 77675137, 19949512, 65449, 32841930, 30077110, 10607891, 97172791, 113203101, 34858568, 100003895, 58080775, 49585960, 56002753, 130005752, 92187241, 47506572, 66496329, 96023915, 120998160, 116997991, 16103879, 101872933, 56313698, 52444653, 47569828, 65896696, 114168393, 115510593, 123348398, 68758497, 84787810, 12958866, 28330916 >>,
       << 3046687, 38307019, 131529813, 77134856, 83701086, 46353916, 113999794, 7696093, 40695666, 31557391, 124435626, 67284611, 76478552, 90652293, 101173537, 53162693, 39017326, 87140225, 13479079, 53410013, 36328716, 47205665, 5296862, 70915708, 51756938, 19349898, 117526164, 97188399, 94817105, 125100446, 75636922, 117777099, 43347216, 25505429, 106610054, 119143400, 17472941, 103195086, 17056140, 113685083, 30347953, 3082569, 63319051, 133704406, 19830506, 133307407, 36401976, 119902811, 97639091, 131397251 >>,
       << 131813009, 74166566, 123139283, 65658972, 51747394, 34181651, 12619842, 123058068, 25011372, 55461567, 13252296, 119802798, 29201777, 89858938, 116287190, 76304177, 48865252, 109352987, 112713647, 125149527, 104593159, 48726232, 65767685, 33728301, 43029517, 73026258, 53265752, 15914199, 67643771, 100109034, 1787930, 92318884, 43340517, 114788440, 67645639, 26853961, 77391113, 32937053, 41915131, 118717228, 129434694, 4850195, 69535275, 29426938, 49525410, 36412632, 85025488, 109465155, 124219710, 37480785 >>,
       << 112796479, 18892239, 90641111, 85774050, 63595863, 69116516, 71189172, 47361445, 75779126, 73246061, 124537410, 68443814, 16775116, 79122851, 23083385, 2037109, 58166019, 82129512, 51415291, 50048429, 51122255, 82305628, 26326073, 23861217, 49721750, 89161378, 122858496, 80249075, 55671747, 108747946, 19068535, 127758163, 61536679, 58464044, 92387348, 21908706, 18636982, 32211272, 55608831, 72326242, 31669525, 11127679, 108206397, 23356193, 63083793, 45695257, 30963485, 121571052, 34133828, 16477353 >>,
       << 71460650, 27630104, 82278415, 99258027, 81515342, 94451377, 101011413, 134144497, 46222906, 129553922, 45528591, 85198826, 132891966, 63122528, 112075514, 75299324, 110218387, 100448409, 104566352, 127636373, 4391083, 21608946, 121478472, 129104054, 105149477, 124596006, 110313885, 114111769, 113333834, 18012202, 119992933, 68977427, 2382085, 11801832, 115547193, 60981857, 66724131, 10826768, 90992091, 130615301, 3588414, 56437853, 17440808, 75702610, 39755366, 48701528, 116440178, 122698357, 2379696, 17920690 >>,
       << 100515699, 51885171, 88656205, 101790791, 76690917, 38421632, 35897380, 61046426, 29958715, 104279794, 48956495, 89515976, 28661804, 37255211, 12815432, 133409840, 118140569, 112600554, 86240043, 37832540, 93484970, 33112646, 83387447, 9827884, 4113875, 99721649, 29120194, 25001978, 127477385, 31988563, 98778342, 93982156, 16602232, 110995784, 70945891, 57872489, 112471659, 88983634, 100450521, 57304551, 129698901, 62902517, 114990375, 76922671, 85516622, 6702460, 119243809, 56982227, 56643742, 85863254 >>,
       << 65277111, 128809022, 99950546, 34494970, 63175517, 64702387, 86691181, 85194660, 18219166, 100818431, 6944435, 95620792, 124381935, 13098693, 10666693, 88834351, 117102647, 8256663, 39631198, 206266, 73994801, 30931972, 68356669, 33597756, 33138304, 99546505, 62850820, 113572946, 74867870, 23275635, 52919451, 2394936, 106348137, 11399490, 86222939, 73317398, 59990687, 62917984, 95505311, 63844412, 105474745, 83332110, 101057243, 46411474, 86483212, 29754560, 25285182, 116297217, 125251303, 100257292 >>,
       << 125147565, 37916684, 19121601, 17884579, 43553980, 28419700, 79386142, 30330094, 126322476, 82673460, 17404252, 17976106, 35390221, 17199830, 48329577, 118792428, 102565991, 66107524, 64007516, 60533813, 103342633, 24354890, 61201673, 61228485, 33856974, 48601846, 59847857, 90523522, 45510142, 6429227, 22126531, 133563232, 14314418, 88364833, 107981570, 69949686, 70536818, 117744390, 46207800, 25058624, 12513718, 13395937, 125585479, 124228057, 37845920, 70643033, 41474869, 57978831, 133584323, 4676869 >>,
       << 30504238, 95425509, 50796280, 25448269, 71302471, 30909392, 78173211, 111012100, 53181904, 95496464, 102792284, 71703174, 65657473, 72748700, 111693992, 67846804, 117196425, 39960978, 23668758, 108895583, 105195934, 2122589, 101753184, 100405471, 106813363, 89543733, 38300640, 62024879, 44456350, 120824883, 92350010, 84000747, 92871209, 118704160, 78899426, 103597050, 75221769, 33095958, 49460066, 89038281, 67507298, 106246173, 79733241, 41751565, 60005249, 101041309, 63727107, 7513199, 118173342, 51448173 >>,
       << 77340050, 94162134, 127799374, 96941001, 111319106, 32808354, 91599500, 79153979, 23844885, 70628659, 45678725, 32393050, 17555983, 86599160, 85760954, 7324324, 20161306, 132980294, 130640693, 125320482, 42578225, 41672802, 54667195, 10900332, 114376861, 56329361, 95655396, 89276880, 94499642, 86624953, 63646155, 79463963, 127541077, 38897792, 55231855, 100143931, 132494156, 59741054, 86549590, 60700759, 70509833, 89188515, 106448912, 9160128, 69768720, 133367345, 102235560, 76437888, 69361120, 105682554 >>,
       << 58320056, 28890267, 96311866, 55601698, 100165650, 123414281, 10526520, 117186657, 30175519, 116732947, 77066647, 43697017, 83000272, 96455129, 39000496, 104725800, 85525368, 44027381, 131283997, 105385638, 78621429, 18128497, 94524596, 130508118, 8676259, 15403636, 95608951, 75198859, 45005348, 100438147, 58817904, 23208465, 30823955, 127889923, 84900387, 44585582, 129014531, 84606102, 6933562, 11728561, 83050274, 37686267, 61824213, 28690942, 66347755, 65419829, 76631249, 56709648, 18473642, 53825117 >>,
       << 90554517, 26400904, 67804320, 122845729, 104949906, 78304361, 50878299, 118560021, 111485543, 47389495, 39199591, 102782623, 128840530, 75527644, 126655250, 83521293, 117824213, 66231708, 91129320, 62379893, 76529917, 11528579, 95026158, 64248790, 74350616, 84160442, 84780344, 20629389, 108728543, 116116476, 106608838, 18138910, 2728012, 5904568, 73838626, 96381604, 86544187, 16552417, 3119399, 105897020, 4047775, 13075125, 99637191, 34295656, 23878106, 67727572, 109655513, 54733982, 89631252, 55863687 >>,
       << 80013979, 7745533, 53031090, 24455120, 42914348, 11516771, 43192809, 65557666, 43401050, 78674866, 45660172, 14452582, 34005150, 116372243, 78207466, 102974395, 101301578, 102160263, 5737082, 75841389, 93856416, 53356715, 59767803, 13174133, 84888219, 93588160, 105294127, 90018636, 132995148, 107987045, 1881759, 89093739, 68619252, 1063355, 210037, 95720413, 35590392, 84713199, 126174190, 47383923, 69101242, 93232141, 64927485, 120824259, 24614555, 36627646, 21022064, 88443849, 23420384, 64930620 >>,
       << 115133054, 90380532, 120770090, 86048381, 39325550, 117651239, 130990450, 96730222, 92914153, 79069644, 128661725, 52892181, 56846463, 46918621, 94458468, 88480354, 17248138, 83101806, 39917828, 109536735, 69293166, 26625429, 114552258, 6022852, 127486807, 133426910, 46349568, 15430613, 61288944, 16682932, 78695038, 62377501, 20842471, 99716021, 44545172, 8582678, 24164746, 87581747, 29144485, 116050698, 122149609, 34362298, 27604821, 101853617, 126568315, 31543248, 43962566, 31140354, 126774930, 57984664 >>,
       << 62182504, 50081804, 90665849, 60061838, 91247325, 64969653, 66801015, 59629908, 28544873, 33647146, 121225527, 96929990, 105631522, 110163324, 17459162, 52076839, 107262257, 111800253, 103218763, 44936958, 71408187, 114649740, 64707236, 43308149, 6454285, 27758510, 89337440, 9341412, 1218037, 40205791, 95141494, 86846360, 79227245, 58734125, 80432055, 12368202, 34461843, 135490, 63124258, 122468508, 64073271, 10067969, 84496524, 120183762, 92036221, 84255385, 24471647, 116427354, 68451665, 4005874 >>,
       << 128254583, 105829067, 55423294, 11454014, 126214418, 88632279, 133047955, 77365941, 80038049, 4728545, 64608288, 113060855, 35460383, 133741090, 52925815, 52752468, 119103410, 95023743, 131445772, 55338281, 81100755, 102400809, 66778167, 111739615, 89725367, 36634632, 63695346, 20342167, 106522531, 113371533, 120517244, 123025722, 100660647, 12093343, 61668143, 16066798, 100757068, 125591921, 22854365, 38900452, 103085459, 30905429, 49425988, 52351383, 56800324, 67169529, 88105021, 108671803, 32880642, 105043408 >>,
       << 132817751, 98696502, 6766972, 29262663, 20621137, 46743315, 101625426, 26471174, 51923115, 124854060, 132730827, 113758463, 123098306, 76882816, 49890730, 95982932, 19382108, 118591724, 48641444, 43744878, 71406369, 59792558, 97663109, 98774448, 119380443, 50970288, 65715716, 27767003, 42973285, 97884331, 1411971, 63692856, 130135530, 75193604, 101907553, 12565008, 100142218, 7433938, 88742928, 67004057, 23603201, 70141098, 92418690, 30064417, 87571512, 79911506, 39934451, 108943489, 61908154, 112895552 >>,
       << 51808983, 35974306, 127142749, 97445055, 55727047, 100551140, 91057191, 129538260, 126113019, 9660505, 24617406, 91249889, 50852078, 11833641, 34937960, 81791370, 93639583, 85766602, 105854177, 81536470, 27462231, 88081834, 54342573, 89949951, 125095698, 31747213, 14403806, 103473223, 76921606, 52997246, 23629662, 115512234, 129126994, 123014368, 59243351, 44794603, 52943896, 93688770, 40012072, 34314984, 29925876, 77858940, 116432333, 102281092, 5133808, 78258134, 42730001, 8540682, 84496400, 81222619 >>,
       << 112318702, 45217218, 52780947, 119275804, 133160939, 53807671, 29220819, 134061657, 2215918, 8276440, 87502660, 52863745, 26957830, 52354090, 19474068, 95429668, 124229352, 15853828, 106373212, 132955006, 7223183, 48144301, 91110041, 10364357, 52189329, 34759268, 7581477, 59771607, 68507094, 62051615, 116786466, 99450875, 129527389, 128862942, 108691557, 95603729, 113663083, 86969642, 7445459, 116916396, 40327053, 112645695, 122070767, 67300729, 14508156, 12134078, 27445069, 99441327, 87783214, 48847965 >>,
       << 102696396, 115904172, 119721560, 101165104, 26227667, 117258642, 125116257, 92318515, 97907808, 63943905, 100478706, 84797689, 133359036, 90036658, 84691154, 33063073, 81114757, 55783031, 48974767, 124958001, 21487126, 64791014, 123737147, 84370425, 119029446, 21902765, 102733157, 107617549, 79953100, 42533981, 77946266, 100569224, 73031262, 52689453, 59145290, 61848990, 62923044, 93546140, 8212671, 44914501, 48391134, 40023634, 69367608, 79554114, 78486557, 95861958, 103387746, 4957075, 63646494, 11968430 >>,
       << 132297250, 24447345, 93065911, 78895245, 123471395, 81222606, 51563851, 81736458, 102754224, 80707984, 124882626, 12898201, 43709082, 39250815, 94462857, 73698011, 24572679, 130721876, 110339370, 126269356, 64190721, 1270443, 6660686, 88161970, 17084908, 77024940, 33190318, 29110606, 104143605, 93336917, 110779955, 14075309, 28473591, 131615169, 17272580, 52491866, 68359034, 76762936, 26177262, 63211863, 109437217, 35140884, 56464387, 2645626, 21019034, 8635375, 33516011, 58325499, 101716186, 73151729 >>,
       << 113320885, 71906385, 38537596, 10165975, 48278939, 67071574, 64696916, 11219525, 93038198, 18174100, 99569367, 81541051, 132986379, 9046063, 70638891, 35690208, 23190359, 94004041, 83940301, 86724446, 50252469, 8472402, 96963335, 79246969, 47404830, 106904023, 55522671, 101050954, 11404943, 63474412, 58483128, 89447175, 132566643, 121761401, 48934098, 45096698, 74890137, 80535246, 21006550, 20822341, 29543272, 92975392, 49472852, 48523882, 118502165, 17400801, 92718056, 73389652, 43374270, 74674996 >>,
       << 65799729, 89681722, 3467114, 116719279, 132649999, 120560991, 58677199, 26166997, 770682, 105204535, 89509602, 20315379, 103049522, 19843056, 73408772, 104455131, 116738434, 95764070, 23801615, 81651740, 124605902, 29903297, 107022290, 31613309, 47890830, 127577214, 19289716, 72902754, 114603382, 58898462, 70753585, 82203835, 66820697, 13941214, 50273168, 97468869, 119960153, 26023004, 47076838, 107754058, 121527471, 80346328, 87096340, 55021313, 40308369, 65018329, 126596956, 21025029, 55101545, 70631820 >>,
       << 89145904, 41581031, 114151181, 98988200, 66952744, 35713006, 55346040, 37175694, 90716176, 48309820, 43078365, 4540382, 61049395, 91865103, 20252188, 120375351, 69782589, 32935628, 13785286, 101762692, 1316382, 123923401, 129507346, 16495865, 134044663, 73904042, 127398078, 47435606, 97438632, 91844430, 6614286, 70643537, 73327293, 6592464, 125443912, 72456345, 64449081, 42425150, 54106023, 99325758, 41674479, 109900805, 125567458, 126428187, 47059402, 100685809, 3430833, 100283990, 90952532, 45421749 >>,
       << 72871716, 14913524, 87310014, 1607616, 42957791, 71105876, 1414309, 14612595, 202454, 75431973, 121397229, 86134233, 74632946, 119407067, 91326150, 110554908, 56434148, 65294487, 79797909, 66011292, 107872887, 129681072, 34895909, 34042812, 67048234, 58417164, 10654115, 78956536, 28473676, 59933144, 71322035, 108893402, 103609145, 97961899, 73558467, 128148404, 57279907, 50590392, 26019640, 111410930, 51552649, 105469090, 85094024, 39685122, 52165332, 102380458, 44358187, 32512485, 125630824, 29428308 >>,
       << 31402960, 40312109, 109687902, 59621375, 59416285, 37111493, 99824860, 77051112, 54817721, 130737040, 30718522, 26660033, 127865584, 64358969, 77464714, 120012751, 115510365, 19850402, 20967087, 106463346, 116139819, 125004578, 92931628, 57767878, 123463849, 119793635, 22853057, 67377114, 15360324, 82695802, 124133927, 9967616, 46295469, 69597, 24336115, 29336904, 65085300, 38945948, 27747638, 73741256, 118926087, 85740581, 66939302, 32866401, 38694888, 132465261, 42040025, 6748299, 43370084, 129336261 >>,
       << 22090814, 15475831, 80569084, 38895279, 1164091, 42881365, 121907785, 85012849, 524100, 33889772, 63516941, 17524041, 100871176, 55929703, 3546116, 83793965, 64183040, 116004100, 122022891, 86113520, 75654855, 57320019, 21990970, 79882685, 10205272, 36196007, 47701358, 127436420, 78852673, 65338800, 60518349, 31707979, 131064506, 130223606, 54987632, 50687215, 2157512, 76791385, 71488818, 100807535, 99520161, 125601454, 42558257, 77926851, 15415109, 81402818, 74712280, 12500212, 58932818, 100847956 >>,
       << 40002104, 65053908, 131128519, 96730211, 31117825, 52192839, 58497067, 48967820, 27512732, 82409365, 59219591, 86643468, 70963539, 70753302, 46986237, 70326426, 60451743, 108211553, 40190001, 67909494, 100328821, 79939646, 91673410, 91264143, 46487012, 121219823, 87856160, 117050185, 48614596, 60758125, 15632135, 32848486, 15197672, 107345873, 84791790, 82151195, 71836016, 33979271, 128740268, 35224683, 35426238, 128593445, 106387134, 97008954, 80655037, 125185667, 52385593, 8659744, 123321796, 58403596 >>,
       << 32636158, 113313984, 75764162, 42967503, 24305541, 45492758, 64275797, 33685209, 64085159, 63985716, 64877167, 37267957, 31810030, 58866317, 85927534, 21181025, 10651368, 19005663, 29831245, 68127460, 36797799, 69150757, 61082776, 59643077, 49551926, 51470906, 121126764, 109363315, 9758685, 105421293, 115051373, 123138679, 83328144, 10923101, 124523578, 73589513, 101462409, 75535778, 111750538, 69679105, 62958172, 44575066, 50105198, 66139319, 79541102, 116832908, 89766649, 72191219, 113862771, 130648839 >>,
       << 29654295, 17023224, 98042211, 25152281, 109249972, 79812409, 5434535, 85798748, 104551836, 3820906, 123231299, 8017604, 43444580, 79080339, 1650244, 42907949, 38473857, 47067469, 99245791, 15208205, 58807518, 30885476, 50973751, 43229445, 73890773, 48898265, 38169169, 4350940, 43287862, 97892635, 76138371, 9013688, 76725912, 30080495, 37211740, 40656800, 124226335, 24817455, 38983521, 54861465, 16869160, 115390860, 88276064, 99238472, 116733103, 62994859, 13844396, 131624045, 18083300, 25292502 >>,
       << 81881902, 31446269, 33146793, 125860862, 118560668, 122174807, 7425545, 103988749, 131399867, 102408471, 54548752, 45128661, 31775439, 27135918, 49910108, 117746784, 106224493, 26138780, 117679738, 95788617, 49449491, 82212681, 126820874, 63391663, 42113293, 125185203, 121714811, 110214080, 78560144, 89999176, 72706043, 2702670, 76547283, 53143700, 133886511, 108790510, 20995749, 67614749, 24951678, 98010627, 94479342, 16111256, 79780522, 54135292, 122973892, 12511, 70510917, 65778330, 75180751, 65605065 >>,
       << 102529879, 84450591, 43649822, 84945584, 63174866, 67678930, 87461726, 115368738, 74092285, 19636074, 104457296, 94161773, 105598353, 63900081, 132101349, 25547740, 62420569, 114345377, 126090741, 57032244, 33225726, 6362203, 78918638, 125086545, 62929702, 61157173, 29459774, 77986452, 86063924, 109112931, 69185407, 97272292, 33186557, 116452584, 58699416, 113486948, 51649756, 55286296, 3654116, 76399278, 67044223, 88227576, 76421261, 133649761, 66919658, 67544374, 108771869, 43741989, 124813487, 44959809 >>,
       << 131007527, 1494536, 106161286, 118037008, 101210948, 7415365, 92089193, 86246474, 39236726, 37237553, 133674605, 48828387, 88819879, 6223584, 59551116, 94523697, 18857084, 80611355, 53650832, 21082657, 126856493, 81845614, 120086679, 130596165, 97889516, 132820234, 130295701, 103802875, 99377050, 3651053, 92109421, 10964239, 2310924, 124698994, 59249507, 82161908, 31047623, 95384549, 24423105, 92574807, 127449436, 19805861, 54326162, 47740226, 19826155, 60215318, 69362876, 21251850, 46389904, 38876045 >>,
       << 51782687, 31890372, 2107174, 44636298, 83369614, 40841032, 90021329, 10523931, 99030682, 47141123, 57090187, 67092112, 16249337, 9084896, 61580813, 59334532, 42880921, 27286027, 78390358, 73973509, 112765205, 103434432, 128478752, 97319964, 126916847, 105822061, 59364655, 22090955, 37307264, 107581780, 85565049, 42376759, 74305052, 12154851, 96190865, 118013706, 79230112, 105565502, 113592145, 113742005, 74231510, 61787553, 90005887, 4603529, 131831219, 67916951, 90094503, 67218153, 40823438, 959112 >>,
       << 66416859, 44202034, 95541550, 42335410, 102651628, 26908178, 92701847, 73903008, 108235041, 297943, 48931261, 26279376, 99543149, 52597544, 45463793, 83025429, 84108331, 64051222, 19050217, 58703973, 70004440, 29115196, 116826836, 83109450, 126910441, 49789130, 4460970, 103270273, 60859520, 99423114, 93712780, 130693914, 3225980, 46868926, 11015414, 107039207, 25485519, 114360944, 6099108, 54860958, 81337266, 55755098, 60187833, 24383689, 8700779, 104620310, 17245867, 71770152, 14328712, 42623801 >>,
       << 52093474, 73485470, 32525251, 74194306, 60384869, 104876052, 3770658, 111124758, 124988131, 24583488, 64894960, 116105391, 126747184, 69886287, 125744532, 44774913, 30117728, 60370538, 76391678, 117765412, 109283032, 74725177, 103469397, 20883228, 14983945, 38760123, 131335242, 128902544, 97313941, 76974476, 22904132, 41631635, 11337523, 29889595, 63502947, 13881462, 64349747, 32391279, 338545, 116876271, 118965905, 57190677, 92407545, 25798812, 76015354, 4743285, 111249992, 128499014, 71025622, 49926172 >>,
       << 71228662, 28957585, 4474701, 54760439, 75063585, 35004550, 91733552, 123658596, 67358487, 27405731, 131235079, 115474601, 57049485, 104470211, 125279978, 102402623, 69241651, 124670123, 16592321, 56825742, 59464552, 21727596, 26702802, 71904491, 52971145, 57118609, 45093417, 89484093, 55534389, 6164337, 125400616, 53565027, 63727025, 64525013, 49847583, 133638211, 125363947, 46962250, 75715151, 47744794, 60250657, 105315554, 32683856, 98651799, 122676830, 101120169, 106133139, 43908553, 39005103, 13486665 >>,
       << 108834990, 403374, 42741825, 126626622, 99998927, 101631643, 85738826, 89803597, 119230564, 59313302, 64611183, 120823210, 88441401, 17560859, 47485103, 131160332, 1602332, 39414927, 5247808, 24002895, 44051536, 92401625, 110740417, 107786300, 100496978, 71564006, 87373916, 82523831, 98970596, 67403261, 73567764, 8682795, 3461603, 84313248, 72555357, 122399198, 42970715, 108169332, 43665510, 70947290, 60069691, 20300250, 28350840, 45984637, 65019206, 67625693, 39186351, 101478245, 48290049, 105251762 >>,
       << 63435441, 84461020, 19995600, 6236431, 70651527, 2856174, 20524038, 38672159, 126325672, 15319801, 2203339, 106430756, 38420944, 11495364, 49640234, 7954708, 105925908, 62668283, 98669138, 127504304, 125670668, 102371277, 40664631, 77826631, 32842430, 15695789, 54501425, 50865177, 1849156, 70195461, 90075800, 15956147, 57461593, 102881477, 91339398, 110345471, 15378741, 11541453, 46073776, 85256711, 49220868, 84515079, 51325758, 130084742, 58616351, 11990004, 30998638, 86960169, 38189338, 2234176 >>,
       << 94573576, 36975988, 59116284, 89062195, 87832728, 47820958, 6045005, 5649518, 5560808, 116995076, 111301368, 41861076, 45058925, 74087633, 40381960, 4552235, 127367669, 85996177, 74320493, 78807414, 18492383, 17464823, 84046237, 64096708, 3100934, 54510880, 117325135, 119700213, 76595278, 83613691, 91505759, 4984544, 124400079, 87351260, 51596916, 41630181, 81467752, 105982740, 41305577, 83727028, 32480170, 44564789, 58665866, 87123997, 46745913, 99200588, 93417130, 114393742, 120209946, 87171272 >>,
       << 110648160, 67942249, 126893955, 5465365, 123522497, 90965521, 30234460, 105832092, 87968375, 52847086, 28342186, 75487077, 29196983, 54150132, 39309860, 65396050, 18804531, 116880514, 22111418, 40856059, 48696871, 43648604, 103510784, 68449316, 122984299, 99831187, 13056527, 65030273, 5151475, 70327084, 97918492, 29652877, 31636793, 46906175, 8673345, 105004938, 102431921, 103722410, 39834068, 116927526, 86278155, 89641720, 24693078, 34981801, 36526944, 86825963, 85369388, 117033529, 105149916, 82218367 >>,
       << 84647376, 111374109, 95320564, 54622800, 53871990, 94267571, 33257100, 90086067, 81533050, 4726873, 103403240, 5452809, 97929441, 4679668, 34876462, 47911159, 28416423, 79416324, 121759857, 127254104, 95301982, 73655063, 2439839, 36671667, 94150487, 130579717, 117169861, 121091058, 97210265, 73838156, 116471456, 102086588, 72978586, 107244316, 98870539, 55984755, 66547190, 84821085, 22242129, 113033988, 42436641, 14024381, 40478875, 1375138, 92264588, 77222636, 50530246, 14695432, 99152058, 58724299 >>,
       << 6835665, 75783209, 77785829, 67372168, 126865411, 60104994, 28287293, 9867173, 66815785, 110680613, 1867186, 127830078, 79186604, 67254510, 130004031, 15529829, 119123589, 53418652, 130141960, 54530698, 128747956, 71578869, 122276443, 75289508, 13777085, 29914216, 119899083, 2391523, 30846287, 115149507, 84115154, 73225650, 39467728, 50966208, 80898150, 14573611, 91182652, 24244164, 73754775, 12875525, 48967244, 7334879, 13575841, 51139932, 33874185, 43689880, 35045462, 124484283, 54875431, 51681244 >>,
       << 133590664, 20597682, 49619278, 58947405, 31089411, 14992481, 20775232, 116243448, 46866275, 29398504, 56600116, 14496185, 17076619, 59240367, 54013875, 79658749, 67186521, 60723900, 52970656, 23114349, 103384812, 116357459, 21716474, 105579976, 101457315, 126714138, 118967807, 78383612, 47601034, 124538125, 66863454, 106270939, 100073579, 85748434, 78431573, 126408692, 41483913, 65536169, 37594104, 48836457, 4982804, 74540900, 8043280, 84673941, 75708054, 86914362, 67862064, 82798281, 105178946, 60579505 >>,
       << 16070289, 62578653, 121298346, 31076790, 87513853, 29591101, 12019394, 101796715, 45211447, 103885397, 66576813, 12622868, 125203214, 56948837, 4942280, 119964646, 37278311, 23151169, 51359023, 125872442, 126666545, 110995199, 11071085, 35575177, 111974779, 121900710, 103347305, 33886468, 60102337, 11752570, 120346915, 56021490, 44690269, 4951543, 113838679, 35555495, 35231120, 102819005, 14064515, 49657750, 24877950, 57732461, 35062480, 38108288, 129996019, 46305332, 91561608, 88529735, 67139110, 99301838 >>,
       << 84942673, 19251433, 80476289, 121188681, 106240347, 55577874, 99125216, 80003060, 38360292, 97764237, 132341910, 49541176, 34487436, 11584482, 88564865, 90350969, 112646211, 76954653, 107127424, 118577974, 15368409, 112101886, 29419828, 125094513, 98018380, 109763414, 62130359, 74853887, 5977606, 34130292, 79851109, 67911681, 65109854, 111198203, 57521898, 18124356, 2807564, 80925291, 25414222, 108794812, 73495074, 108444488, 25814466, 59625397, 33088765, 79756118, 52637098, 124944300, 43656024, 98776556 >>,
       << 22116549, 41937454, 120655604, 23302782, 109622622, 63783281, 89941632, 55954812, 326238, 94628005, 107595329, 65208696, 37757852, 88569712, 90714209, 16249096, 41740766, 58593855, 35101901, 113394921, 102394643, 119929808, 36273775, 456602, 106938988, 22864924, 58429076, 93119065, 16639535, 25546357, 47285415, 25673399, 37905084, 20793342, 43694582, 47408620, 45833553, 51725818, 11584775, 74757474, 26502236, 19243919, 109690127, 126789771, 57746152, 96619644, 20459595, 111551286, 11849364, 27893362 >>,
       << 71586696, 34337077, 126010856, 16492810, 115841803, 92332516, 48329826, 46261832, 9716575, 113073852, 1193704, 77261025, 89525002, 47187231, 36664312, 124786674, 17787071, 116867808, 129888135, 84346370, 48590548, 103714288, 18973437, 116268976, 64591322, 45535842, 889626, 49364076, 53950577, 121147009, 72634250, 67554179, 85713144, 8289139, 68525356, 121431839, 36758260, 86869861, 117684053, 70543716, 123837430, 23075119, 93566368, 1777607, 58868135, 20985503, 63191457, 9639642, 20306739, 52518269 >>,
       << 25252711, 27584702, 41185118, 4378063, 92914419, 89115076, 24740462, 88124025, 82987255, 28439577, 65593929, 71068007, 125667788, 14135842, 98422283, 105094597, 33316955, 20326759, 54587643, 63063844, 21254363, 60572729, 33213278, 32728022, 20756902, 117897116, 54952272, 16827441, 60240313, 60016368, 122928675, 96771118, 57652499, 58917054, 39113784, 58306505, 118391898, 82464277, 45062677, 122342260, 67995915, 106500763, 68276238, 115416374, 16592145, 77931390, 85169036, 113350049, 39311937, 102316361 >>,
       << 51647453, 72132414, 130128306, 59907960, 85921523, 94809062, 61445473, 101007313, 39489898, 78325417, 92072748, 20273397, 130946959, 77199068, 38859892, 36035621, 81483182, 81949970, 26022464, 105678377, 9787663, 27011848, 55979746, 65630291, 46516912, 85524375, 118759295, 66424981, 21069914, 132632578, 116277215, 111300505, 97668108, 100698942, 118712764, 54128162, 54877536, 67730785, 34981747, 95202885, 109385219, 81005547, 129377378, 117662456, 614306, 122114618, 92173340, 44336694, 30857969, 54269287 >>,
       << 87125454, 56732775, 120469061, 58940344, 86727073, 67296227, 28083361, 102442551, 25061879, 4261222, 25687882, 10152539, 53261954, 16568150, 121056535, 95719367, 95461160, 104292046, 27701628, 117345930, 14401979, 64916204, 60422743, 80110935, 1988274, 45841180, 32658626, 40588388, 5533904, 122827878, 27832994, 74434219, 91347029, 71673837, 29743745, 25422394, 26804030, 13664586, 87803243, 42801767, 106768702, 130567292, 89220814, 126352131, 119056103, 97722308, 12862873, 68731672, 2110462, 14146573 >>,
       << 53420415, 54064894, 37520239, 72551511, 109763867, 1520884, 21141902, 33491463, 56824387, 18142474, 72174992, 7827726, 116596963, 16003317, 116944451, 80126854, 29807281, 67207261, 70934860, 112279717, 93029431, 98999402, 122735344, 82490371, 86496708, 117219684, 49038391, 128182778, 26031180, 9658671, 14810745, 47460921, 37048308, 104004442, 118822388, 89677633, 120003283, 32342394, 75613946, 64964622, 73038263, 122015803, 12649651, 48248518, 65053619, 33026973, 34908784, 108598193, 11621450, 115461489 >>,
       << 42616927, 77819711, 107839576, 11335999, 2884172, 90429198, 50677930, 104005325, 57217953, 1652505, 67123368, 56403530, 113552480, 24608805, 31632503, 96062907, 51010245, 47407891, 7999996, 38883379, 53308339, 5083288, 127583951, 18944635, 55082683, 122520542, 132722573, 87647044, 23432973, 108681344, 19267161, 41733564, 115806289, 127762844, 66364877, 74114323, 85778213, 81218460, 17693586, 19408877, 125238577, 123967735, 128741638, 45216707, 14061378, 85674926, 104934164, 73854958, 133295647, 93457239 >>,
       << 19651734, 116611725, 128619151, 119958040, 57211857, 129072724, 86063614, 13327739, 126535742, 106310438, 104199841, 32844981, 45278459, 5786404, 128240760, 55809222, 16827226, 8732178, 8099435, 71050325, 38801083, 4451440, 10386649, 43362818, 116292668, 64433570, 113326999, 82349233, 119454890, 78105918, 66628282, 123913742, 87457701, 2370489, 52973564, 18246655, 95173360, 82561148, 118685360, 70256723, 8629601, 4988907, 75743248, 134060989, 82112624, 64104246, 86243916, 47488651, 24687402, 116401490 >>,
       << 128314267, 56727364, 71266230, 53104624, 56156622, 125195423, 50220136, 6659558, 131616564, 71591590, 28779476, 56203368, 74134475, 12474588, 102381313, 52523870, 74779822, 124820979, 108652453, 90411380, 125205757, 22006205, 15261984, 39045368, 5633410, 59394658, 128019304, 30337961, 63222497, 132290171, 26301942, 7236601, 70525291, 92060425, 130682691, 60851213, 11107465, 123954071, 37657937, 101257608, 26532585, 77653536, 2401196, 26173920, 83097001, 1343760, 80902672, 119945066, 128050426, 20810971 >>,
       << 3511956, 122595925, 6985910, 45807059, 113483642, 106095484, 99177709, 89249717, 52499542, 23767594, 53392351, 106849578, 5310038, 64743387, 976029, 84891561, 23792955, 132197425, 87506168, 125593920, 38191019, 66093866, 38307942, 68943070, 110773216, 43804142, 119831275, 87681326, 60248187, 83711774, 70254343, 96135767, 71707308, 113161196, 71088410, 82684135, 23056413, 8470613, 31009196, 22580555, 61987949, 30656954, 71531263, 15730883, 119421294, 44315281, 126068704, 23368852, 20491843, 80001038 >>,
       << 105316647, 110887901, 27811670, 23209028, 18144088, 77161350, 60869603, 90009229, 91134042, 23441641, 129395408, 103462368, 44019895, 34349296, 4989228, 15050316, 39824417, 79545329, 90028769, 114553632, 90727417, 33396251, 73909342, 91796219, 127604158, 113515591, 119845440, 39693496, 65673121, 103462524, 118559215, 49369046, 39143401, 31504183, 86017981, 11451129, 67895372, 72075603, 53931151, 105684604, 41780111, 48453615, 80551305, 36005989, 61004877, 73293374, 6994362, 7708195, 63827503, 109251994 >>,
       << 84446325, 111555792, 111423117, 77039524, 23313569, 98844054, 131846608, 36184608, 101135896, 57512758, 29082985, 53657999, 55175694, 132471553, 80349859, 112184114, 70228196, 32505109, 64161561, 113047660, 47028059, 48248026, 131274310, 85701390, 87183463, 49057227, 87016569, 2290839, 37600121, 111612673, 123227149, 45121564, 73035190, 32750299, 72432275, 66147559, 48435180, 5193215, 1826832, 117373881, 99547127, 67082220, 100351511, 62380874, 130098087, 4207555, 82822069, 77988176, 7276163, 98213251 >>,
       << 25271186, 15511482, 59565923, 105970811, 19436140, 12749316, 84577206, 117952373, 10442549, 106515185, 30470281, 102795273, 48663294, 133060345, 78860998, 94840037, 67152368, 317389, 37950463, 25896771, 28115633, 31739365, 14762780, 108204304, 101651471, 50299379, 90372769, 56454099, 77938424, 56441829, 35519657, 2467794, 15506417, 6544576, 11193235, 41927253, 54452866, 4159979, 12164838, 119004922, 82958143, 90889309, 26829628, 132739147, 123652764, 123292127, 28024813, 43872530, 24909822, 957584 >>,
       << 113978695, 125620420, 58355026, 22331292, 132367855, 23373943, 108642853, 130426727, 51434502, 7322724, 92150612, 76107746, 27792124, 10369912, 132834258, 52041356, 99756138, 37088057, 17509088, 102077000, 51852237, 53500237, 112458257, 125745627, 30429248, 31018090, 15699633, 50887332, 12682362, 39303646, 7044401, 121351487, 73784120, 127967907, 20959915, 25541822, 14147056, 1047114, 8563976, 63801569, 11504486, 92757573, 60247394, 16250534, 80807852, 106562195, 78125790, 39608085, 42471285, 62426074 >>,
       << 123646821, 99115978, 33560966, 6201016, 44888996, 102328907, 14781961, 81030373, 89372587, 85475169, 76860763, 48583942, 3871020, 74367308, 9878799, 80264448, 120257371, 95261219, 1558884, 762307, 112944904, 111406866, 101614255, 109236585, 44656200, 55441233, 103529276, 59186807, 107095657, 108527666, 31239219, 85588990, 48064845, 21112142, 107718998, 55995065, 133915021, 30310524, 48962840, 80275738, 49537112, 11680738, 63329640, 107343946, 58008680, 32028534, 48521206, 24443596, 35397635, 14687093 >>,
       << 32186497, 87531453, 126866995, 3775646, 20142372, 94559955, 24926888, 108217867, 124615128, 130545835, 70767121, 105143871, 101615618, 50515843, 64281852, 133445654, 13128472, 7291038, 53264631, 55594754, 43826571, 99655449, 56831998, 2912807, 22619920, 39574469, 77996541, 22496176, 129770001, 25940199, 49168308, 118597573, 59827712, 59096116, 59565113, 38594110, 10892215, 89159845, 40401421, 77843126, 5884753, 49285876, 63192213, 11468917, 66890854, 45248958, 25721885, 20288193, 17247661, 95744810 >>,
       << 66570663, 115929648, 91572668, 83757881, 124818205, 82964958, 113687788, 112197064, 66196382, 93160283, 106351433, 90957958, 103137411, 46691095, 21906300, 52850260, 132208364, 16377550, 42400515, 70722465, 62356195, 126685170, 122498384, 70147436, 83811795, 94373943, 122153600, 113274111, 124087361, 70344519, 79829473, 108342369, 95858626, 15481488, 53827241, 109477617, 97803968, 74334891, 115677801, 33457050, 13238397, 64068948, 130299175, 14212288, 42580365, 116201576, 128459866, 15210326, 12564964, 8951153 >>,
       << 34635993, 21807957, 97082209, 35311929, 15570537, 21100909, 39293937, 94183103, 108174950, 67209676, 41842904, 133412511, 48890270, 119029143, 40983865, 129674863, 55897491, 59002170, 29102902, 9980836, 122850404, 90301004, 125524833, 27365821, 59548262, 9979761, 123894922, 99465012, 63077363, 120219051, 112951667, 118753105, 95825804, 35392913, 12402810, 76955662, 119635673, 123756361, 73311, 91589263, 55011424, 53994084, 80142911, 43107574, 41643113, 121426289, 126692304, 42611328, 87866181, 7181290 >>,
       << 72846490, 47229041, 63832068, 99358263, 109305642, 659606, 25777348, 34113625, 998547, 119827019, 16407581, 87178319, 131597081, 106709348, 12181808, 125243868, 66158673, 54132288, 118505240, 121649093, 11990379, 61942343, 3882533, 51935886, 13994332, 27688637, 87275248, 117687221, 4935311, 15214279, 13895390, 90208160, 16874184, 60657666, 28617525, 71438433, 29750246, 115036043, 12143251, 89210033, 127824291, 70108276, 84753864, 111165967, 87238441, 11790747, 61079408, 21787951, 3974649, 125832251 >>,
       << 32801557, 129494573, 42667947, 63099594, 78803431, 51094091, 48003784, 128180412, 112552563, 56625181, 34833288, 1639520, 4114138, 8543139, 76468723, 8566448, 89349255, 103964221, 114365058, 87236125, 124807194, 98761810, 122264109, 42572841, 39026419, 114861898, 17432227, 104843697, 53527492, 97012351, 7684065, 95241923, 120036717, 117192024, 58745393, 74216409, 110045760, 128750687, 19938369, 114326716, 39045002, 10082527, 16505050, 56525228, 116778764, 37602402, 27618698, 36404493, 102314406, 92408895 >>,
       << 23156305, 40662181, 128901887, 88690056, 94940778, 132436223, 113062738, 9357245, 112234998, 16388607, 34021361, 117914887, 134025245, 63488552, 42560929, 117796204, 39143456, 88433140, 53117423, 126517504, 58585780, 19393638, 36876393, 122080917, 101051745, 70889684, 19576374, 17036190, 30712306, 127819815, 113140018, 8381497, 86465850, 57100086, 120065240, 133249938, 118421322, 39440197, 16951157, 99635691, 9836409, 106917101, 10634627, 56737754, 123556182, 68613890, 35126325, 53731567, 7357031, 30107165 >>,
       << 69594499, 108272625, 127409458, 126353662, 80208167, 108575281, 46668382, 13126013, 84277127, 94179677, 45357539, 82326687, 19972669, 31952672, 37457170, 123393054, 92535690, 56716313, 52467116, 42762055, 19711530, 8674439, 113481251, 101141789, 66470866, 38470063, 57000670, 34510135, 43587444, 25276538, 102173224, 124209346, 31356030, 13227092, 127045378, 58137092, 100940187, 116258715, 36283956, 77911801, 106368966, 42207890, 1281676, 57733505, 4527529, 104572809, 43429967, 86647507, 110263550, 38653717 >>,
       << 13878135, 12902143, 92748518, 118333215, 28614516, 63861474, 131587025, 134138606, 124614405, 87679658, 13988945, 125003458, 30033301, 86149085, 90502693, 39003770, 86002341, 57081714, 99700961, 118755565, 105999172, 32494048, 84924448, 14117853, 101591314, 91750728, 1594745, 127034275, 66621163, 72923432, 80345629, 113793778, 91797050, 6108651, 85761697, 64898377, 71877447, 57476781, 77390294, 112153759, 91872110, 100584088, 43114723, 60783063, 100353506, 50431089, 7182398, 14962039, 74816737, 107471922 >>,
       << 102805657, 70717709, 30524029, 132060342, 1837545, 36814511, 14291200, 93348373, 90419777, 43313486, 85093837, 115248206, 129776393, 37354141, 85728319, 38048117, 65559149, 41129922, 112449453, 66881934, 32271973, 31959646, 35898504, 94238882, 29916662, 49810804, 132302377, 87830963, 111371227, 87648208, 114964473, 81699198, 62920943, 33367787, 57984620, 101878832, 80930823, 64131314, 4620889, 12586832, 89235146, 57253426, 67372346, 103584558, 48352054, 20969734, 112219613, 127663323, 48695821, 112297700 >>,
       << 32402803, 10268083, 89356926, 108535248, 112975432, 94272817, 64919405, 106974029, 115775864, 42918791, 6547331, 34106480, 132001686, 549895, 106724940, 75632893, 28758390, 63588103, 2488563, 11087241, 122398065, 100345729, 15512262, 69570361, 43952804, 83400026, 53395587, 74760461, 76812577, 93486848, 60087745, 36059690, 86471608, 2395722, 99019343, 83235590, 48112889, 22703195, 75787297, 2851606, 43963059, 97208488, 105742404, 88208166, 125907501, 47554476, 4363324, 80391455, 46989712, 64839594 >>,
       << 123708575, 76573538, 20556937, 67402824, 9049079, 71220975, 35822884, 59983591, 97968402, 20578137, 52421588, 53448243, 67823771, 6660861, 53247955, 127013758, 27580366, 99456738, 117945687, 81382042, 81282728, 85242488, 119687144, 23073532, 38657405, 10330034, 57179539, 126152320, 85288336, 12730453, 12131317, 80104772, 46483535, 115673630, 36159392, 4728989, 109051624, 92609945, 96778993, 97129996, 123782385, 120614695, 85397039, 111294016, 124862005, 105930190, 51167745, 23823887, 99277300, 65493921 >>,
       << 68826793, 86715498, 119714108, 119783732, 82062617, 3480235, 68521168, 131140737, 71503272, 133800831, 98744954, 100009349, 88064147, 7237741, 52848595, 67417880, 107247938, 27029340, 11949392, 102292472, 16473634, 20145147, 128852596, 89622848, 110284013, 15804131, 61787122, 125701757, 78190946, 44592113, 80889770, 18729323, 117869601, 74411652, 19934024, 104489423, 110863627, 118212753, 21500409, 28141066, 32402412, 128254561, 10913351, 24880876, 44201076, 52368332, 65235952, 66889980, 18388276, 46468357 >>,
       << 309930, 110671107, 92627843, 95085719, 111834265, 28748039, 69672860, 114261244, 46175464, 126550523, 101558324, 119711449, 57568505, 16547218, 56991306, 23469734, 92484979, 61806411, 93858985, 15586327, 128577018, 129510042, 35058430, 12338495, 25431515, 37482778, 106187346, 23416828, 66680045, 87605240, 95078792, 66379262, 25317350, 19323861, 27051599, 42352182, 87316431, 66021402, 31208729, 93890357, 65776715, 115818869, 34142341, 24145523, 121896796, 105274891, 13587062, 90762599, 120244492, 41542870 >>,
       << 96962820, 20275090, 1592550, 81765645, 33907517, 24848503, 4655493, 58960108, 79714405, 32005542, 120310496, 64578630, 35017942, 15023437, 49609009, 87172122, 68207429, 61115263, 8792006, 82894680, 95148171, 82737633, 38586041, 19256753, 45953395, 6766491, 131202451, 115350718, 88920756, 44196074, 133731173, 76044409, 18245771, 88998273, 128749042, 113671025, 106513582, 44292840, 30363407, 127818630, 116756426, 121307718, 86033091, 108278153, 121732805, 293374, 115899076, 102822263, 77131954, 48873515 >>,
       << 48169932, 92487715, 113868465, 99212574, 91788084, 73470479, 65994374, 66353255, 81576892, 107471708, 129890546, 94775609, 81453721, 30029529, 53067163, 39645688, 90114576, 105186780, 24445740, 65573877, 28300551, 61784747, 78513501, 46739420, 60912236, 19993358, 29867071, 69869925, 96859595, 84132759, 13360701, 56676860, 128969069, 91404317, 105344195, 121397142, 9588861, 17134190, 78248308, 19943158, 11417536, 32125452, 43032827, 13914184, 13687181, 88544080, 119204972, 85448667, 9885431, 32129011 >>,
       << 87993516, 27847119, 6808176, 14348511, 3943458, 63810330, 44046668, 25195869, 50057264, 126908114, 102668932, 90784440, 5952730, 23906870, 116562162, 34914574, 54358942, 130774502, 77413053, 37435929, 128134803, 70500672, 111707470, 104179308, 109052627, 38701216, 95491346, 98207126, 117689730, 13903292, 22888232, 28337282, 18714500, 110431115, 97882947, 16925127, 24341710, 30621403, 114904076, 22834099, 121648079, 4480193, 74855360, 64974245, 105408180, 33456605, 70292852, 101013475, 43185111, 118981932 >>,
       << 94472105, 115441531, 108089565, 63687896, 7950318, 126316257, 103097444, 101588543, 102559739, 96574897, 77245127, 40856743, 27809853, 78486054, 111530413, 111905924, 14069609, 33360060, 64429642, 1602218, 132067671, 70704774, 130854907, 47413518, 75411164, 117839993, 59002986, 128686568, 69683086, 27528304, 64387592, 82942568, 22743998, 16628744, 30224643, 127488306, 132531659, 14979554, 56941990, 109489154, 127013591, 99402097, 74342276, 24938155, 18865488, 50436888, 87174721, 7259134, 69238146, 875598 >>,
       << 82848703, 133615591, 108677190, 80001444, 28070326, 59911205, 9073959, 49979518, 14322302, 83831724, 31123094, 10000970, 124206178, 60282444, 113071732, 72941480, 40479544, 36232995, 95881011, 80338434, 73076798, 75042734, 105594309, 103697706, 107922107, 33064858, 72519487, 417884, 26486839, 59627953, 85624119, 37353629, 132151677, 87244620, 58743205, 119171528, 99378752, 107904240, 31045886, 72978165, 16549207, 12847047, 29975121, 106430732, 28033411, 59778879, 8214135, 90079336, 33582265, 77156792 >>,
       << 35780117, 53108415, 22689560, 41097333, 113053470, 49156621, 42031583, 41417763, 4184039, 59004961, 114933571, 65535518, 118424586, 132029795, 2047614, 2082372, 43066848, 122644388, 31224116, 123241131, 47791833, 43205954, 87243106, 126611065, 68143074, 69630067, 17470939, 114629485, 27442718, 123107108, 35406764, 74057275, 97112308, 13571789, 89541491, 16685794, 104562947, 68608602, 3682070, 89623823, 74545337, 108867444, 24051686, 75786140, 87497841, 100130691, 31184407, 69454239, 133202022, 43219615 >>,
       << 7779113, 108175743, 124886931, 18291385, 97866197, 122231722, 71798741, 37625585, 66055891, 64591581, 79397755, 130900720, 74267172, 102510999, 22276138, 129054204, 45716058, 69181884, 65273797, 98827346, 47527398, 29418084, 62343681, 9415496, 133157934, 49807975, 57199381, 103367045, 39565649, 13464032, 43100975, 118682278, 114062592, 108294991, 127132914, 31522123, 29039998, 99791557, 4472238, 59894418, 103590013, 2165862, 51180656, 55158849, 55847022, 91410743, 119682183, 66225441, 8167678, 86521049 >>,
       << 119476171, 88919392, 93698031, 53900394, 28610443, 102750463, 121523608, 31263063, 12161563, 13404218, 76916252, 105866527, 132461676, 9272837, 96453373, 57814145, 93544634, 12522362, 134070039, 14005936, 132769319, 129258265, 79226395, 44612538, 45225924, 99799371, 29557237, 3430839, 79855534, 32870311, 65776682, 27590015, 97495392, 15312753, 112880266, 25543370, 34310566, 91963149, 7660115, 30919175, 65453429, 66155186, 83586638, 10358130, 130530753, 62614227, 1130286, 103878752, 127227013, 28844646 >>,
       << 65182224, 76804278, 84694682, 87527471, 28347786, 3688512, 55588777, 13089264, 108817073, 72269832, 77941557, 18404790, 117993356, 6824265, 120280043, 1955241, 38493069, 132199818, 123418808, 49803992, 69438854, 17393319, 6051041, 63997431, 19311304, 108240013, 12952059, 52499770, 24496326, 111149119, 36279229, 60232336, 130697765, 92982368, 40073227, 17042809, 40071267, 57928247, 75011678, 36240982, 125047656, 64180472, 32726903, 19787890, 48343308, 117987874, 105943472, 123612176, 43119878, 8136260 >>,
       << 103048488, 56988785, 126839091, 44087187, 112001741, 18039086, 77246783, 88660240, 81323134, 3231624, 45001677, 96167587, 119602380, 29372653, 51618794, 108322866, 122835240, 126171535, 59211131, 83788326, 85327009, 16058765, 17365843, 3251916, 109312948, 60437744, 132420781, 21328108, 121671765, 120443775, 100399956, 97745076, 4591054, 83402670, 46383454, 63979702, 73649706, 109079285, 88776018, 130150184, 81247233, 3045941, 113696654, 31427698, 42114351, 93324725, 130903038, 94182899, 43059914, 1499757 >>,
       << 123533078, 131333043, 72089621, 13249444, 76285359, 81133340, 101137005, 107673167, 105981844, 129818780, 114062747, 55621394, 72424824, 115386861, 107472465, 125834209, 125371508, 100322241, 35306478, 37269488, 43195741, 58443141, 43841141, 127703061, 94495169, 59954826, 134069788, 133796730, 99873730, 93552777, 96539642, 72293601, 104661759, 10662607, 110645292, 97864241, 60030582, 35371728, 39516889, 133688005, 24890651, 4511899, 130155347, 42224123, 34936873, 7453358, 124359058, 128546813, 85341306, 48528155 >>,
       << 121357530, 11397884, 130693832, 119930185, 123643724, 49647650, 123915276, 92678382, 89386494, 43732271, 56348257, 65007740, 107047293, 132464842, 37662590, 1291142, 75695649, 105637924, 23392724, 6509993, 15709281, 97891061, 52822526, 86703124, 66896062, 107225519, 42407306, 80720996, 98827486, 80094777, 91208125, 32579260, 4756008, 124118591, 131663252, 3226150, 9603857, 30075074, 118683889, 34560377, 115976898, 84244568, 10527809, 40697697, 117189116, 4465312, 46857367, 99016017, 84442620, 72322445 >>,
       << 7001234, 52022595, 84567684, 64257421, 2564210, 76626397, 9685272, 113132647, 34204435, 105149923, 105387373, 36476216, 127967624, 58169067, 48231212, 41517465, 69678758, 34545345, 745899, 131033167, 6579868, 1818847, 5395591, 119381297, 39432921, 5021097, 3019708, 39310861, 95725485, 55343852, 34208074, 113985050, 48155323, 33812038, 83653898, 62003491, 51679724, 70923734, 106291692, 28327520, 39686953, 98220106, 129891827, 71872177, 108679945, 59152414, 47111340, 22870175, 48490390, 54531069 >>,
       << 2540295, 37856642, 133348428, 120149029, 74034055, 77975411, 81203275, 19054771, 115383949, 37852279, 53192552, 57042394, 18059172, 42447141, 59523298, 56646837, 8122698, 11160947, 129679729, 25825654, 71181605, 5304648, 93506856, 63151137, 80857878, 44479974, 99116987, 10619290, 11969120, 132572273, 68067549, 15046526, 22902685, 89602084, 119782786, 14330053, 106383626, 109310636, 51547258, 47365969, 23740801, 91437700, 88298518, 50045178, 8036728, 74742206, 90601951, 15770808, 49410319, 75986581 >>,
       << 44278577, 80753757, 3019316, 41376042, 32247766, 14609529, 45392209, 126175842, 2890285, 58947411, 116503421, 112498760, 124779464, 114126868, 9480896, 104137198, 66740984, 34456751, 9550416, 84819371, 58094483, 91773072, 36845823, 64562374, 127427050, 107904769, 64987267, 114991907, 102843089, 130276608, 96868915, 88758717, 51979734, 117855818, 25325670, 109865063, 103390851, 111823747, 109347814, 13626173, 83999287, 5351193, 92715087, 129173815, 119817982, 30695523, 104272873, 110459779, 20979544, 94031407 >>,
       << 33219536, 16326206, 78374884, 61547766, 53955602, 63325256, 7772649, 21764932, 48616548, 41243654, 129306553, 50432703, 13373481, 55471492, 68437049, 34088545, 123564910, 39261929, 37321075, 50965755, 79686990, 56293647, 37964342, 49053049, 102150429, 127285912, 86386904, 67790188, 81461995, 121140042, 101885530, 24160977, 33728273, 91695385, 41380776, 11273966, 126362511, 89157731, 72778537, 30592285, 24859854, 68248170, 120088888, 103702644, 9034267, 116341434, 11813615, 114913997, 107244099, 106724773 >>,
       << 32491270, 115956948, 59583637, 84921584, 17045008, 36487925, 126396347, 100110341, 91650427, 91361501, 37452871, 103001877, 66184649, 125297299, 95614197, 79953062, 109658666, 95326936, 21088135, 104842884, 77614950, 61412460, 100417164, 96239439, 43569057, 131417007, 77134232, 12390561, 96312650, 115319323, 35722680, 122869419, 111994325, 40176369, 130380323, 71171981, 122069533, 123591331, 77209324, 133204837, 41036990, 2686388, 119329008, 666555, 77099024, 88657462, 41545232, 51605243, 45601414, 114183807 >>,
       << 102104859, 115955322, 73070087, 34234733, 120398742, 54381967, 31491173, 118375917, 130256503, 106777958, 77851575, 20759062, 86484637, 100499020, 38815255, 75208890, 99515838, 113145633, 107448098, 67529987, 66348045, 75182045, 2454079, 86438874, 128522706, 63966939, 100924221, 32736366, 64212253, 53324328, 89399657, 85711399, 90405480, 108118356, 64067614, 56111339, 107750810, 34177652, 114581751, 76795238, 63085185, 124182707, 27619034, 60769004, 71287183, 6078267, 43168319, 33317061, 36800617, 114953340 >>,
       << 19866320, 47058212, 14967270, 75551536, 13370207, 114756537, 72211782, 61012489, 16457685, 56835096, 17018360, 113639519, 72239849, 76725539, 59910355, 41152696, 59262483, 58413847, 108277648, 61435608, 58053270, 57056346, 93173943, 127560182, 53724381, 101139705, 7700309, 92888363, 81955403, 10954066, 78963975, 16172078, 80716968, 25464669, 120007819, 48960065, 21969004, 51076274, 112555488, 33972968, 16935536, 45971125, 77425619, 88291249, 87059424, 82035760, 28265554, 15196659, 60173089, 58415370 >>,
       << 116054211, 77761825, 66601167, 113475937, 124600947, 113659857, 2079760, 71262542, 106508452, 47652235, 56433222, 100935058, 115071821, 60062387, 42756249, 77196924, 15673404, 3510859, 84335805, 50300500, 113509962, 87590735, 58528488, 98470041, 105526597, 28528929, 106904897, 119594045, 98473579, 79351429, 87525869, 90047696, 110627667, 131572209, 55790245, 65087105, 6228797, 88794949, 40669440, 114852961, 37241745, 105373939, 59771555, 64084715, 129650636, 64601459, 123037668, 110713951, 133460443, 14895900 >>,
       << 36465848, 4570082, 47706019, 108039745, 60435749, 113530791, 113742710, 62823339, 126787451, 124183514, 7436349, 18088415, 130092320, 49014929, 133683817, 127726567, 100645594, 2452387, 93578224, 11482568, 48315061, 49462975, 129212897, 37862662, 34366107, 82906564, 37872791, 4802456, 85885858, 111497857, 105258766, 83337169, 92874847, 83615819, 117850987, 72239634, 43044802, 61510769, 109017339, 43455571, 17741630, 49687697, 52270113, 133326743, 84547819, 29054058, 65848757, 34673348, 127476994, 121662144 >>,
       << 35851775, 125331536, 100168845, 73762654, 36116215, 47907222, 45181999, 98322924, 45208399, 95229992, 89805607, 87844927, 63538590, 52395415, 126464400, 111863207, 126101152, 101043935, 90343448, 55029330, 28255743, 32484152, 111142404, 45401023, 92589858, 36438376, 130400484, 24661719, 432728, 95104309, 121424391, 131915140, 44823974, 3541289, 134175709, 75872298, 120594233, 45830158, 127777191, 28966370, 104736395, 1323973, 92049981, 60306417, 21548460, 63138819, 124625983, 98479657, 63102352, 17547766 >>,
       << 70863233, 83889776, 94861718, 93351266, 103970550, 19181101, 63726936, 52220558, 76743630, 43887144, 90228058, 68116815, 118209981, 74666671, 66837687, 8078731, 127071560, 96286269, 74534128, 77989718, 133006768, 36601492, 112943646, 125948241, 115877065, 21151508, 98701177, 118299828, 86585737, 131870800, 57227618, 109643342, 54100881, 3066978, 31508318, 54995492, 124168187, 56863904, 108844733, 81889939, 72518668, 4175876, 105758084, 85392172, 25152467, 104403692, 62368812, 58408717, 91448426, 117459339 >>,
       << 41101764, 35460709, 72606072, 23149789, 86090588, 121395718, 103384428, 80539516, 129173241, 110570837, 107907842, 132629342, 38315255, 26379955, 92873815, 48366530, 6198613, 7601140, 128916876, 64685696, 80954388, 111540822, 53432510, 107638313, 13772145, 58029314, 47632141, 30055936, 64182780, 66535808, 116859343, 104814548, 62684301, 91370488, 70531819, 34366243, 18732296, 37338499, 65897219, 14250019, 56381522, 133378914, 38644859, 75732526, 133543383, 8674438, 78707822, 14991620, 52290043, 25910018 >>,
       << 126814824, 91315548, 57489072, 78106922, 44784817, 2913446, 114693057, 112253627, 92153061, 63181142, 107752297, 23300187, 46051083, 81521794, 23613185, 46206933, 4841910, 13302118, 52102936, 81394731, 9926444, 46799461, 57323280, 82282050, 63945614, 71157192, 8318601, 64472595, 83870294, 68400676, 19048689, 27938721, 7176730, 64189476, 89911207, 6184893, 2836662, 70314766, 8497619, 26397483, 28958668, 101228940, 114080705, 100600286, 41322135, 110706461, 98913089, 77781486, 2467287, 18980950 >>,
       << 27984434, 127096382, 103453327, 64468152, 40218573, 31098033, 23870618, 111562050, 132503220, 58008368, 77070268, 115488744, 96114539, 23567338, 101722789, 104695015, 37407585, 83687141, 37769761, 13108919, 74115123, 507455, 12118106, 93510021, 50913451, 90293710, 77472932, 85726000, 47306137, 121819574, 81979982, 82298647, 15813931, 15835492, 86551830, 93182712, 23426940, 76821268, 113689139, 40336089, 56442575, 120945176, 35278113, 5291726, 33188994, 9149798, 132998868, 14358451, 72799639, 20896326 >>,
       << 74262386, 62028395, 133344849, 80470634, 121558309, 12674446, 35321765, 58337175, 122788126, 47946297, 79205032, 46825671, 12869898, 131168940, 11020482, 87714563, 19473006, 3690263, 108678863, 25308865, 110917488, 30935609, 75548801, 109199726, 121592015, 100575596, 131717881, 7994017, 133248485, 49316885, 80898067, 127782060, 51643194, 132051954, 58011786, 91264853, 58077795, 86745374, 77801235, 34065533, 20694093, 29104144, 77035368, 127164012, 124444267, 38934021, 111010404, 25351691, 74843081, 90686197 >>,
       << 27891537, 96772428, 64648810, 47948850, 118183332, 115665914, 90722550, 100106562, 118801391, 133877601, 38519429, 118999432, 21342979, 71122130, 67230872, 40253188, 51661379, 32525853, 63625212, 96570491, 64336045, 32389595, 41136542, 84263003, 73805378, 84546065, 104419147, 43554139, 7208939, 98665028, 32700856, 1305758, 109561157, 131685174, 98117198, 24066663, 117333154, 60203756, 63739747, 106077933, 18339746, 91775997, 106419891, 10646302, 133606161, 60927960, 77236247, 27427210, 109256075, 10015321 >>,
       << 53825487, 21257876, 48016392, 6252266, 127344403, 112935460, 44292729, 47311796, 26557364, 21198408, 56977920, 59527479, 82864576, 81379483, 19554164, 37301893, 115684277, 112998014, 87863451, 85052107, 40967625, 90673948, 103887926, 94348785, 68588835, 33028466, 92740926, 62525707, 19271382, 52958959, 128066427, 74940593, 96461772, 61923632, 102313663, 94945676, 65419891, 79078901, 118789801, 32291775, 98489212, 68477949, 118069572, 89390203, 70665528, 76422978, 111684491, 36024173, 115509732, 79794211 >>,
       << 10637850, 107553591, 23013870, 114760211, 70674710, 129858737, 58545769, 59383740, 22245466, 67971274, 65443615, 64441545, 34508845, 66822097, 105824328, 72259385, 51479193, 123389513, 82755499, 11202489, 6980556, 39535719, 2417530, 59473695, 50922178, 94618096, 117036053, 115015212, 105269701, 22199093, 80102255, 50620822, 116259406, 83272543, 128472903, 106619539, 51123323, 42076728, 24513663, 112051750, 100575751, 37808938, 13466324, 99811781, 42512601, 65240144, 29581814, 9973535, 89351479, 68960069 >>,
       << 6737139, 18887861, 2449416, 38340773, 2709549, 35416368, 10400935, 94538305, 120234512, 1067223, 61765956, 108135659, 13728398, 76071767, 9269251, 18072571, 79878579, 104098163, 107974642, 37558179, 33467480, 105590868, 92405733, 33352275, 61255747, 7546941, 132657919, 124271881, 24163541, 56684607, 48910682, 58760891, 71015796, 123904805, 13380231, 39071526, 83258457, 53104283, 29798686, 107423036, 47996867, 42661126, 4021727, 10596175, 78173748, 28120400, 49664794, 28055030, 121150233, 8469163 >>,
       << 88814834, 10664945, 4073573, 118414841, 15274306, 96539586, 43392536, 68606375, 40552928, 49577145, 53105535, 59447763, 113191770, 30232283, 128096309, 117478401, 12298178, 109067003, 29380137, 64041927, 7722461, 93201566, 6217166, 97160137, 93597156, 96076738, 8805293, 132486450, 89131477, 93020217, 61897632, 36941011, 76131954, 25576269, 12385009, 121492592, 127652982, 60533728, 48245982, 55680609, 127718205, 3727046, 107630494, 67064398, 134073566, 31301896, 914257, 24814883, 126663947, 13912190 >>,
       << 94709833, 125257260, 93979010, 133979628, 133906560, 114079217, 130911297, 59767807, 28603141, 60819987, 28598382, 31681869, 111913149, 79935336, 64568678, 108888812, 85042804, 88444809, 5944377, 11197432, 112938790, 118869040, 117407161, 764014, 13113963, 88654682, 118263954, 126713696, 38845908, 75924383, 23059246, 55530095, 21003025, 10301098, 111009614, 107226410, 131465274, 74034981, 82756039, 114466290, 21214888, 123391618, 116108680, 21379741, 127412468, 97438669, 90901264, 120320027, 35041174, 2087152 >>,
       << 131912608, 11582, 55824971, 10381139, 28013399, 70359371, 51172926, 44914543, 36228556, 113612069, 92940597, 79666478, 57224545, 124357892, 54070952, 7113856, 22960738, 122883017, 87285554, 42022541, 114779320, 11409636, 130976314, 127522198, 36352263, 33494200, 45820790, 72811158, 96887370, 5560097, 112009992, 37144357, 111222329, 63211287, 11201866, 8609328, 111407465, 74774380, 95458362, 114543732, 4152491, 133399303, 105518783, 4367911, 128426803, 40645552, 45494683, 7058731, 11127392, 120015482 >>,
       << 42390096, 100174742, 32537509, 123845913, 9402342, 94990132, 15100238, 76795973, 126665045, 44020460, 82040192, 129789380, 122314259, 120025171, 129129498, 123614690, 109078724, 84173034, 54552059, 7800480, 111471637, 129402666, 20280595, 64682077, 54523874, 80587725, 104751456, 25573950, 107218162, 119277143, 94325918, 115750343, 36779698, 106930078, 124411763, 131690197, 101548395, 66356530, 133773455, 65060028, 81463656, 58656013, 55987483, 6668661, 113728904, 43934108, 34449463, 122509611, 67434347, 113102536 >>,
       << 119581459, 44598799, 50469084, 20088249, 42523431, 63376955, 46967820, 1104601, 112392943, 36690406, 22701719, 24087030, 41555860, 53782563, 116086816, 35022639, 101619166, 7636483, 51914077, 79277434, 117672354, 35359919, 88976263, 100148181, 92912040, 67140067, 55704535, 101585547, 14714183, 104738198, 97832456, 102016407, 66038681, 45299771, 114451977, 34608384, 118086095, 14212823, 99150674, 69554685, 21388961, 66926715, 104310737, 66974501, 14679419, 106479547, 15543611, 40279989, 75397737, 74903574 >>,
       << 111043333, 105862416, 13037549, 51362770, 7451318, 49538958, 129454284, 74670499, 2826793, 127137779, 10152046, 76171554, 67003652, 90082147, 105451511, 115804297, 44334643, 47529310, 122203655, 65781333, 5642324, 74713348, 22871224, 53887544, 66022310, 99054950, 73605264, 51192844, 114122358, 128509854, 43768272, 119129703, 6259692, 35252715, 36350421, 98532165, 38881813, 12268646, 121105802, 40130906, 121619639, 132009262, 37445821, 100206860, 18441367, 83769469, 130583389, 124065581, 34974039, 102777677 >>,
       << 19454935, 100491486, 54278261, 66261303, 106162710, 84443886, 2520919, 71140066, 72318972, 8131592, 93949418, 46512963, 113823212, 5855532, 8696979, 44077927, 109943031, 16624072, 30511801, 58821582, 89802619, 68692351, 88305347, 55707194, 131459437, 103469563, 118378204, 23726895, 55124165, 68430616, 33831784, 117811770, 82869225, 127153306, 133405972, 59625575, 5771413, 39367965, 19190390, 34196876, 8424637, 55160876, 97390948, 75623623, 89292882, 67767782, 15622666, 39569133, 20114890, 117319385 >>,
       << 121668951, 124407555, 748660, 59765162, 130976459, 51291537, 88511951, 72339770, 10548997, 58940169, 87695344, 1424006, 5917834, 57602714, 71789674, 10443342, 121020610, 35524607, 29522955, 57168130, 48311305, 77414302, 63405500, 20691202, 90153165, 125075593, 30283716, 79989525, 100426818, 87316295, 105603899, 62750537, 52537369, 55179104, 98945132, 14062334, 91693584, 6358098, 41995247, 33765873, 16307308, 116171689, 61604584, 105149946, 11212610, 43277974, 5067887, 3932056, 106908951, 66345702 >>,
       << 58038375, 1865954, 10781419, 92316536, 111630613, 116864713, 61358228, 46689416, 101706553, 129055369, 14882321, 95342741, 99668527, 72059413, 118189138, 800826, 730722, 120678156, 60233917, 122485694, 63518827, 74302530, 33610981, 24027574, 68035471, 38110909, 130717147, 49354974, 48665951, 61277569, 58626417, 13776932, 71064814, 83903804, 57430990, 123611451, 64853044, 64722291, 107259674, 6139220, 58179173, 57427682, 65512214, 17612984, 92349696, 12393623, 81082568, 97459192, 21383833, 107156834 >>,
       << 111076670, 23739970, 74253772, 101968331, 31213204, 40183834, 78677715, 115982203, 15746460, 34754988, 27555120, 1432528, 127598138, 85240437, 79439447, 106776992, 20272906, 14863928, 48637865, 21265499, 60730176, 127782608, 23717032, 100035420, 48794012, 83504849, 65132743, 71771078, 29802773, 26344124, 56750565, 128008260, 111233296, 62259178, 122351787, 130591875, 37633060, 105380462, 92357417, 7299432, 120166100, 70313639, 90982210, 77340671, 13724851, 22894591, 92204095, 103395960, 6031589, 46344378 >>,
       << 79592266, 78382801, 108502770, 35917350, 108465836, 38463436, 92351698, 62454752, 84295455, 117877593, 103784234, 52489897, 79308914, 98584850, 113731627, 71592347, 132736366, 115503134, 72410397, 3926757, 12160682, 23671463, 90083316, 103912472, 22169008, 45934951, 101380284, 54358801, 107051698, 17321133, 8164213, 71419537, 29014988, 55692507, 12889806, 99722180, 1953871, 115386525, 75075031, 72439596, 5140778, 19961112, 48006483, 65886030, 110568902, 88339430, 5165349, 106317496, 9376920, 114071993 >>,
       << 54147695, 117439791, 87098177, 22602604, 96325849, 6343857, 98680144, 87747615, 53447798, 96404550, 32340802, 61428633, 8357567, 30398284, 121001119, 49883574, 124430310, 45238218, 83088152, 47210060, 118782462, 118497847, 83583837, 14174586, 42686567, 16542297, 52536179, 58802334, 120663180, 50839633, 101103134, 10319838, 58464298, 94661344, 55478923, 20357265, 131877440, 76845099, 54474871, 117569371, 108071850, 129959500, 46603072, 72704073, 115380517, 53226396, 123975836, 117235445, 100154645, 25885543 >>,
       << 51775882, 114874380, 132456126, 7294844, 17817900, 104763427, 48284174, 32677897, 131643077, 115658836, 50427834, 68911718, 65521964, 25233943, 124302922, 19366732, 108633784, 8135368, 83057875, 19887313, 23862424, 43785440, 117184393, 37031715, 48262926, 6174094, 108054964, 73763349, 133435241, 126867647, 122635792, 2633359, 51970490, 82469330, 36001481, 2461731, 82212640, 58947533, 75047790, 107475738, 125016892, 62154431, 109975399, 27421262, 110374869, 128662162, 121602705, 87166965, 115708214, 75007001 >>,
       << 66842808, 122321110, 13005812, 109685929, 112762145, 71916114, 122778026, 26855559, 85362380, 119289836, 38588652, 119726794, 15738828, 101289986, 7506399, 131834195, 6830831, 85862019, 599392, 58655511, 52279136, 43300415, 72465871, 39308760, 69158928, 38546831, 133184463, 128868591, 129876980, 129157994, 32325946, 114306533, 95496400, 101367476, 108576909, 106041075, 75640452, 31063143, 128131694, 3666881, 101531353, 780585, 37131767, 57793525, 8318497, 30218464, 94162169, 108975222, 42034331, 112278704 >>,
       << 87255872, 95907781, 55578052, 176075, 95149671, 71629587, 81768171, 93457519, 114432649, 127739094, 84384831, 66638971, 119129526, 5120580, 51514515, 37033311, 75864214, 115722918, 113966958, 91703141, 32880141, 63124020, 50058247, 83727540, 106944980, 713339, 38202119, 37937059, 62743902, 118591797, 81953493, 131201506, 6836900, 85288990, 111446601, 127132591, 42262618, 100338028, 74417119, 110251182, 32558680, 7742362, 35273044, 63067554, 1980544, 16976965, 65575207, 87892973, 71104223, 77436900 >>,
       << 3167647, 21448774, 113918946, 61128806, 57103313, 35283872, 49436200, 15244744, 133920761, 25242702, 588283, 92023555, 126708243, 103071383, 6410920, 43035795, 123632280, 84634650, 106713114, 6701934, 120407468, 114656501, 15873717, 120127980, 83642336, 73204910, 124501726, 127627459, 43992848, 122883976, 65893145, 44077539, 40101876, 64719372, 28152295, 121185623, 72761567, 68174916, 103991717, 31902, 72737855, 37950007, 24152430, 65057336, 41266162, 3269775, 51379744, 21463228, 68520997, 22093578 >>,
       << 67293217, 43688248, 105234363, 358178, 59648000, 21984394, 46234566, 42242852, 30023934, 24667121, 1764648, 49721143, 93075737, 18795225, 129124995, 71973483, 48416149, 9793345, 42896371, 113039750, 49632915, 120576449, 7527736, 15712376, 25304126, 44221545, 21072329, 33942594, 62829336, 10820727, 12330722, 107505080, 58748976, 74203309, 68470470, 63616970, 90259654, 102108724, 131573062, 103974833, 46375778, 1806399, 96576891, 48512142, 16385947, 27952739, 131987828, 116159167, 83532006, 100149769 >>,
       << 92828654, 16154968, 117741238, 71215705, 85242092, 35867437, 11783411, 68837851, 3290061, 48164867, 100483113, 12426963, 110289148, 38855133, 13667193, 17069209, 2961615, 129892367, 95722059, 125670939, 110704798, 435048, 66117451, 34667265, 84818933, 124155066, 5598844, 131202531, 36889531, 98646863, 131186496, 50154723, 9092645, 44455671, 57421112, 77910333, 81028224, 122701785, 112455480, 28567033, 29027193, 107671899, 103574077, 20672859, 63461082, 54648873, 93973534, 83881692, 19515155, 105306408 >>,
       << 103925102, 51361650, 75397533, 76738306, 119895289, 123127667, 78371834, 35598351, 60139403, 30350155, 68575639, 62474040, 112389220, 82107937, 27254898, 5642816, 76148569, 125583911, 20247239, 90514450, 49611242, 23913222, 114188558, 27334106, 80897097, 6501110, 50395249, 131366966, 6876514, 49253550, 55401870, 26668369, 55226257, 108877227, 6089039, 58913274, 10865413, 19959779, 40489392, 111325274, 109121252, 113770472, 16521968, 27324801, 64046237, 27539218, 81838449, 113456684, 39873024, 82631141 >>,
       << 11616351, 18374880, 86594655, 42001792, 71833630, 132669513, 109266854, 9330618, 76167516, 29773258, 119935155, 57747693, 52260517, 77658711, 38542578, 116720314, 25460188, 57804791, 39927139, 27858538, 129912168, 57381014, 46968743, 90998159, 93058760, 26166926, 11279400, 88286717, 41101958, 120947290, 99218735, 130020539, 42294327, 93010697, 130063887, 80018004, 130855705, 106326961, 37574051, 50040745, 127818981, 56467130, 74077895, 102089982, 15749208, 49413585, 4258407, 101219974, 72886864, 78337428 >>,
       << 42897941, 133175259, 14611331, 122963147, 39399106, 51200602, 94118886, 31233881, 106001622, 87655910, 124699918, 131370550, 14467198, 71686996, 60095488, 82861908, 73899128, 77703734, 64279971, 117763649, 55143545, 104831522, 30637210, 32192584, 130960392, 90434363, 101959130, 6223460, 17277547, 26638932, 1051570, 37740831, 20891596, 108776722, 110688210, 28211372, 32302999, 109110504, 29798819, 92811808, 69544433, 70484939, 84739020, 101857925, 32120560, 13910963, 88773575, 76503747, 51886591, 545908 >>,
       << 103148509, 19485157, 43539675, 3636587, 81950973, 97479954, 95792141, 88444496, 20610448, 66526254, 2168244, 34696042, 774133, 3254888, 104449867, 41652412, 32904667, 103989580, 112077418, 73319050, 123065153, 58454043, 124671783, 50940235, 57544693, 69135184, 40696489, 62720220, 5382740, 108955347, 67061163, 87552528, 20512753, 52170206, 5747790, 99082492, 21500638, 62291629, 42208544, 63972455, 98474416, 67946312, 81332591, 56165413, 127824090, 57260039, 27184089, 55475710, 67574005, 3884736 >>,
       << 47905434, 27535951, 130321784, 133622500, 65166911, 25975428, 71124093, 7769049, 113163693, 74457740, 103968995, 70579872, 131010102, 128996092, 19761403, 27010967, 25488922, 118504566, 114681608, 5793084, 75731046, 61793048, 3965137, 12531591, 81699111, 106990640, 133301084, 77952181, 72747009, 22780205, 39541181, 62296016, 67106875, 6761335, 84678589, 92264249, 62641097, 48578380, 13324545, 70281512, 92931853, 123774509, 53173514, 18603737, 14000603, 426936, 75624099, 68049544, 88614349, 83930438 >>,
       << 117610037, 106847231, 88065558, 111330062, 120964014, 55570036, 112675165, 25249294, 54192422, 61793066, 70786658, 125427072, 132230746, 92019073, 23336028, 67845234, 87096070, 87264505, 9129640, 118025626, 56857063, 73073896, 127162431, 77038322, 51970072, 1513077, 1848396, 50788195, 104023354, 118677313, 120624516, 53545818, 114557428, 106393547, 67672396, 91393236, 121879480, 70273663, 8495389, 117473212, 121719198, 21425070, 65275936, 78919145, 6301484, 41819281, 97564498, 116177168, 21935272, 49591484 >>,
       << 23066424, 73054486, 90192247, 35736712, 50658162, 43288621, 67589426, 124674722, 3118871, 56678771, 73273693, 104185472, 10076878, 90947981, 60342521, 80098829, 18007249, 21043034, 84731113, 38317131, 13537607, 89365699, 82026675, 81825038, 105519303, 61249004, 133332415, 81135186, 59440435, 1125829, 29117697, 16550554, 5541534, 74841091, 8360197, 71292773, 28471323, 35487678, 74996123, 97291819, 588488, 82919916, 73292056, 122690718, 114115306, 46405234, 118786868, 97365281, 34692399, 34549209 >>,
       << 121913807, 71230352, 132349211, 61210526, 73951333, 76975897, 5976187, 126718035, 110048554, 107150929, 126902842, 36470477, 120444431, 126741759, 71670142, 33109316, 25823159, 34222536, 55898626, 120805478, 106826024, 42724097, 72368339, 50619769, 123203519, 92885496, 61454201, 122941569, 98815057, 85147938, 18186165, 51927461, 8036910, 24534730, 13416249, 29065034, 9428024, 89921354, 133657357, 67693283, 92307296, 3966457, 56687798, 94386303, 56706653, 100353840, 97593733, 55703311, 39949169, 7531289 >>,
       << 42973352, 123735323, 85895163, 81314538, 118667577, 77572659, 63959436, 85283836, 91771606, 40760958, 29872900, 85945687, 3261029, 71297036, 66934372, 97280875, 74595839, 1156180, 112993089, 94315899, 28406823, 59744547, 70335189, 23216712, 123795211, 130946695, 86223499, 104145091, 44886176, 94762912, 123744266, 112870967, 32374752, 58896775, 14349938, 17008496, 56139011, 98643698, 117689638, 117372359, 70583028, 70800242, 66637972, 3103714, 38564929, 133272023, 120169705, 10777094, 44779565, 105564847 >>,
       << 128135219, 42954119, 65311851, 72546344, 127568119, 85443500, 13211150, 31532425, 84790719, 98515496, 59003304, 26882000, 95885860, 10445712, 38078283, 109863765, 22426236, 130603550, 130253155, 16031199, 112841064, 64158800, 89745380, 45395215, 52035882, 131826629, 18458345, 36252281, 64488097, 79752231, 80837837, 36982789, 129584248, 96986687, 33827053, 33051364, 26359460, 112080795, 14926515, 66676757, 131000837, 73097247, 21347320, 60342011, 30337472, 96960469, 108340572, 5237135, 47225438, 87144892 >>,
       << 115966995, 82766838, 64101408, 54828269, 58344499, 18100931, 4298468, 70850446, 41460908, 110717966, 1883615, 123693387, 122195771, 59127088, 69907790, 36808104, 95963352, 122875853, 53817759, 33966025, 120377111, 1819010, 102538794, 15425634, 44567406, 59353484, 60266549, 39500612, 54530300, 130261568, 51834221, 18644786, 15682562, 80517043, 82471304, 93680110, 65200148, 68584986, 88879522, 42494868, 113078346, 57369293, 46029251, 84708451, 16806081, 42425629, 121193082, 46117598, 89119044, 114626838 >>,
       << 40359076, 20090916, 35307552, 44842190, 75459425, 105796904, 56627916, 53942184, 60990839, 23424159, 81890584, 23978746, 76846869, 81483776, 7359443, 133409176, 62172864, 21745582, 18155739, 131892569, 96451117, 56374602, 63374797, 82663590, 36414368, 5861474, 58177314, 89416819, 3150213, 13273212, 42202583, 132748933, 103819618, 34867659, 13987295, 30556625, 69358895, 21963503, 58826692, 96270309, 124038065, 124529417, 31324203, 74772464, 54647366, 90049309, 72148285, 70546761, 29344185, 132744303 >>,
       << 31755400, 82697998, 18113838, 107841904, 27231256, 111980013, 71993205, 89443890, 100747087, 81312182, 70429023, 52382091, 18498784, 20821907, 48070282, 86825322, 118269000, 33941565, 56801692, 87131924, 67242150, 99272893, 56541611, 25060593, 75564109, 55335261, 119915475, 57811563, 131930179, 11660380, 8106156, 30421174, 48372382, 53880917, 50053192, 66738102, 36062312, 86090615, 74442727, 6953248, 75102915, 122663685, 41896904, 26947050, 65848897, 87486229, 124293051, 10630331, 94762192, 40990965 >>,
       << 111727257, 103619310, 77795602, 21599871, 55085450, 19549956, 64564099, 31113610, 84140638, 49074360, 545876, 86909618, 53524513, 4221767, 7017852, 97944752, 10354785, 19950923, 110316583, 57439319, 55376984, 115665423, 38301522, 114803433, 52393373, 85456010, 111126402, 4882253, 78580630, 107290528, 58242380, 10129282, 38217571, 81184060, 105117749, 4866677, 76043270, 121745479, 115044165, 11218931, 852935, 6302429, 80167147, 14278036, 57671956, 52643935, 47730234, 112008858, 89389920, 79574740 >>,
       << 117172878, 43362410, 41460612, 45609668, 126536113, 41739277, 125559608, 96671506, 33368961, 5200122, 7338859, 12896453, 63695759, 118794158, 69649251, 116673854, 36073149, 114650333, 53705619, 17487636, 87848818, 98675948, 116659906, 65889517, 97600285, 40012416, 115721928, 101940651, 87351052, 92728465, 20974325, 107963997, 110361466, 570202, 122317145, 86799931, 42250575, 24279710, 110238982, 95842644, 17519934, 45617225, 89283512, 90567794, 73809434, 76586115, 67974140, 125350707, 119845432, 61438058 >>,
       << 92142942, 124909739, 110666550, 26508744, 7583144, 66984696, 103848182, 128619000, 26614713, 21185715, 14630685, 55252909, 133124479, 53262545, 50132517, 110187252, 103901680, 120927463, 53668790, 76443749, 119001397, 14225412, 6153748, 100594017, 60053637, 7934675, 84181119, 71432585, 91101031, 89635309, 54226155, 100798483, 121826278, 8821485, 116035328, 15830294, 109221624, 66395871, 12509969, 28641930, 89784360, 122521520, 33933931, 124737, 85809463, 19706285, 47996213, 4499652, 127570322, 3012782 >>,
       << 54646168, 36203148, 23641606, 19823280, 131365019, 61523026, 133405434, 56442189, 121890605, 105905589, 34525517, 32910103, 41622458, 111675692, 77216593, 86752932, 41151905, 102379416, 90123431, 55552368, 45423514, 18810409, 123160018, 57855328, 90423045, 92048517, 122747523, 47799246, 8170133, 113731657, 42933672, 130614662, 25832040, 38177955, 66986380, 119287948, 65812955, 90182395, 114054541, 35350739, 10674593, 10964744, 133676621, 55197052, 1996330, 21067123, 68228998, 50198579, 94102621, 76908551 >>,
       << 117738019, 47292535, 25802809, 96240650, 112539724, 131842946, 121227951, 128033197, 73743822, 72139970, 96794843, 66911958, 46085239, 48204331, 80464283, 85807447, 120831089, 75288081, 66242320, 123888134, 42470177, 75669275, 125090048, 99156771, 25138292, 7963727, 34940823, 97125010, 9362037, 90342718, 46206466, 118326855, 43372139, 21964828, 129152439, 105946615, 129443369, 71057213, 99019832, 105299959, 112813419, 123066456, 22104211, 102367895, 30657194, 6675165, 108155801, 115726717, 13283516, 53602031 >>,
       << 123967731, 126355695, 36746093, 97782226, 31003212, 2747509, 122177002, 88431812, 33030672, 84178443, 129680956, 133718667, 17971613, 80946099, 128788717, 66438792, 61469649, 94611088, 37480396, 39582461, 86351346, 103956721, 38556228, 30502785, 30588395, 104113512, 96309392, 130897882, 19525965, 79610342, 94250838, 41484355, 46311955, 91147964, 61276995, 70504584, 57523999, 127332344, 123337104, 122833315, 66959377, 93043537, 86376260, 98175062, 37898975, 117863953, 94941313, 7219914, 39585509, 133830724 >>,
       << 114993497, 120533638, 63410883, 126579620, 60991067, 17378338, 35141971, 85401447, 85423898, 102611852, 52793793, 96552447, 36768638, 122609374, 83262773, 64535451, 20178266, 105642380, 116481148, 105926466, 99152894, 108108422, 68442251, 28331922, 88784536, 103824620, 39704168, 13794158, 75553901, 106714843, 1365332, 55038927, 60489549, 84264444, 120512758, 106332303, 88463638, 116809420, 9996104, 2923691, 4320679, 80052364, 76813578, 59363501, 75032591, 39134560, 39133487, 132109462, 23319179, 82357168 >>,
       << 68164086, 22151758, 77704028, 76493167, 33236400, 8862127, 50904793, 85369825, 34852773, 17600570, 16254014, 17270695, 67479705, 16998328, 56864161, 47713851, 67903501, 46795492, 128903585, 81127117, 63060026, 130138934, 103994156, 6752852, 129857169, 123450968, 116317300, 102878588, 24150396, 38142768, 69218511, 79475621, 9588362, 236882, 45954451, 86336102, 48818687, 63024947, 75665738, 76903572, 76219010, 11890853, 48541273, 102947546, 113899724, 111272690, 70973199, 99774692, 35036503, 30681471 >>,
       << 35500468, 91072995, 132602797, 47076011, 119754138, 50855790, 47013526, 129017931, 15700305, 87329601, 19781944, 133399038, 103425877, 29924424, 38496523, 27457637, 123362875, 35599689, 36941136, 7499261, 96196761, 116657567, 62733114, 92848709, 3600571, 69003005, 103639231, 2698754, 55620359, 114530527, 87551934, 29052145, 9544981, 126163274, 98482029, 32123713, 79312100, 44127937, 81919950, 87035874, 39253247, 32031060, 43309122, 125219363, 60371130, 72460973, 100598612, 105148622, 88022959, 122994461 >>,
       << 36169295, 115008854, 43774650, 83131441, 2758146, 99646823, 63429150, 28087907, 133790263, 92740419, 97741997, 111769426, 16577507, 20944246, 70202195, 21949706, 9841415, 85520180, 13523012, 106588755, 9579383, 24493144, 52807935, 41415212, 85548674, 20426411, 12705195, 130476270, 88584637, 68567218, 10566759, 42860548, 34363432, 35242332, 103101662, 66543273, 130818973, 74306405, 67809507, 78332706, 29180194, 102973829, 62330652, 85315100, 130404295, 61166999, 6959101, 65443628, 7816791, 49650054 >>,
       << 114854658, 3792897, 59585756, 3373997, 83445313, 49798380, 127104449, 86612652, 96842533, 2679025, 85692770, 53979769, 125177192, 17467836, 51651007, 89755560, 29167240, 24897692, 59563782, 54313106, 24065959, 125047289, 34275271, 95803868, 88150417, 117242262, 102405962, 117763763, 132627215, 27133141, 17448560, 57366342, 44924044, 60801166, 20524924, 445154, 128551282, 103212706, 66576334, 81385372, 70501333, 7056731, 34270394, 99148101, 65912801, 5381194, 64594088, 68910617, 83417910, 134049504 >>,
       << 106185686, 99656630, 113778135, 86005222, 32429310, 59180503, 81103186, 124099027, 69405740, 66942115, 66388378, 89061502, 44132351, 21888518, 94001912, 130261432, 87478771, 25610259, 83257485, 79043135, 83445247, 58338822, 112179546, 111982383, 26194518, 52184259, 75928628, 108117559, 14607786, 108818450, 69682994, 40338032, 48579923, 37193171, 35930889, 14445761, 116281636, 91115431, 108246438, 78682261, 73195283, 90412833, 30136029, 131775015, 68040572, 122739490, 48630046, 60716627, 130606461, 96397254 >>,
       << 119493401, 76329609, 20617458, 70774065, 22223567, 53656283, 108524886, 19704157, 99638738, 81160751, 2396426, 13503483, 56292202, 107813368, 123203711, 47231543, 14047206, 42369784, 80970512, 97106400, 77482486, 42098378, 22273020, 64649094, 124623633, 38125912, 59905822, 114388769, 107502599, 72933308, 111558341, 99453058, 133398806, 66321150, 128545917, 13268550, 48468339, 86272547, 44492207, 98592910, 30048805, 25913040, 129008037, 27484932, 9486107, 130999013, 86919298, 59857174, 77058690, 126269422 >>,
       << 103892974, 30564080, 9560718, 106431819, 89273858, 28610411, 86053197, 40098801, 109693800, 66451708, 44220430, 120358892, 51395031, 118092650, 8532559, 82713120, 111648506, 56776956, 100588150, 12719551, 115342741, 62383239, 50930242, 48422433, 84617266, 6789748, 19125748, 15107478, 107726911, 2737251, 107611907, 2738173, 105481145, 5816545, 23022349, 66936010, 70913119, 56928533, 41297732, 88974513, 81980987, 103496863, 75571444, 47885668, 119159160, 109576618, 110284652, 70035330, 89969524, 122842264 >>,
       << 101379780, 116545466, 117828095, 62285770, 7570030, 103139596, 670907, 47115103, 16189956, 85429521, 16808955, 126473038, 43699584, 30508334, 68818247, 120457046, 87489300, 7168185, 117385099, 87196558, 105438069, 56613331, 25941744, 12825011, 82418608, 93976128, 375330, 44413415, 120841480, 28959590, 119067592, 66564166, 112029519, 120444497, 51415639, 132375878, 80273248, 27943311, 22898157, 98003710, 74663795, 62768808, 85053367, 77248441, 121717167, 111139363, 91759872, 22517015, 95149292, 116902721 >>,
       << 124221672, 128216722, 66832297, 38518404, 90667180, 113084366, 106494560, 51646980, 103979533, 25139832, 24023087, 53045827, 122249258, 69204870, 90774698, 82009944, 63851287, 42581825, 26096597, 11924980, 10295966, 100241916, 118349349, 46696130, 21947109, 89702232, 34916395, 101958872, 106462634, 27703331, 72351312, 66035050, 17984869, 115325885, 88091083, 3528255, 59656154, 43643792, 59869968, 80878513, 25879220, 98368561, 13022574, 41672061, 115576947, 87376694, 40236633, 33701513, 87797117, 81699341 >>,
       << 35924115, 108610638, 105092296, 107278819, 15440655, 79687101, 94822231, 75763939, 50413294, 88551427, 36261057, 42355612, 130066766, 91071046, 77133440, 130351929, 130486939, 101972062, 102390286, 87462955, 51588477, 23596918, 84959143, 35259102, 89809345, 27180163, 74204128, 37306306, 851257, 129634824, 77134844, 127218933, 125116488, 96177140, 111223374, 18939046, 102933712, 66191073, 59962528, 126332867, 89232414, 9994196, 113252438, 47613415, 60460640, 114584735, 123944096, 30671219, 89357300, 85384800 >>,
       << 55570011, 70859233, 44481533, 743465, 86846490, 59686425, 7890941, 43015945, 90450171, 14738194, 120218709, 72697318, 20945326, 46919123, 11901519, 86746703, 121853760, 15916462, 106073280, 4096040, 125855822, 25701522, 12032226, 87648244, 71303598, 58325999, 60791381, 17526169, 133844261, 2542259, 64003333, 47664508, 77719053, 14148445, 36760731, 37288768, 111222410, 99565040, 50101486, 55599802, 57664523, 127676557, 122383028, 10357861, 83113065, 54785270, 108182177, 54012399, 97737088, 61622008 >>,
       << 92113210, 50524625, 106864250, 1282150, 130007278, 12380861, 96626088, 44680292, 7327242, 96150927, 36281375, 31486213, 36522087, 133520595, 197299, 103173264, 10895317, 135406, 132505356, 24879793, 52641718, 87784655, 49934281, 45924574, 60881409, 50800081, 93198854, 40815334, 61933148, 49679621, 56271214, 113300871, 86221224, 113547180, 103314767, 112427110, 124569953, 52990451, 48687943, 100133072, 61469239, 118434400, 25847700, 97323622, 18692200, 78913244, 86286448, 63969142, 64383467, 130748411 >>,
       << 40380816, 11219138, 102611363, 7873011, 45306853, 364374, 58145889, 69746518, 43543706, 82450997, 2820168, 106337085, 100973807, 107610621, 97514894, 20386442, 32387127, 32703867, 7316934, 82135571, 105149014, 39857870, 119614893, 117098423, 57206971, 102107057, 94308787, 24940207, 15740932, 41690537, 94351535, 65126483, 85425274, 3144185, 115939214, 56124851, 112455295, 13110070, 112433541, 50359473, 127610574, 111816063, 44884413, 29568345, 114053435, 112400968, 120441690, 62123490, 29491385, 112254403 >>,
       << 112117509, 106101818, 1703582, 43215109, 27358937, 104156902, 117467047, 117272168, 39773791, 22134579, 72903355, 80048927, 9382, 127632909, 65866125, 95206217, 70891822, 9435754, 85220908, 119583097, 111687691, 56084347, 19989430, 77682709, 27164702, 8376576, 125433666, 77242425, 107788376, 87153508, 50711682, 14956185, 47193218, 116454777, 7538649, 64290678, 14972410, 115241598, 113042000, 6775479, 57959337, 53429285, 16341998, 53325724, 81054174, 7325877, 29561959, 58178707, 113731306, 116777930 >>,
       << 61691827, 7741609, 44514736, 77333569, 7865685, 36130639, 15893187, 16055780, 61756416, 88170240, 112723174, 77057084, 85870544, 114738260, 91409104, 62985871, 59467193, 81709271, 57813174, 90561132, 27210198, 13946443, 79782008, 77209531, 131366155, 38264759, 55352538, 59480516, 4332478, 76197359, 124834035, 83473769, 51974799, 90341907, 6535119, 73753201, 61899316, 36392477, 82663040, 56397093, 111051381, 9291420, 115829556, 19960753, 20075546, 81213300, 115805728, 124843696, 68621740, 29392062 >>,
       << 2469456, 68869196, 89862996, 100792049, 65778494, 72619259, 69400797, 41737737, 95583105, 62960358, 60709172, 114019641, 75589440, 72364636, 68241741, 121644605, 67745702, 20552847, 34355066, 104378965, 29097896, 61105212, 46736705, 83446015, 54125698, 132366805, 71273514, 99430113, 52574229, 72194560, 92148422, 57821683, 133712083, 23752080, 59994192, 132407514, 34042397, 123560401, 67407019, 25151872, 126005283, 93418861, 31451524, 1638822, 117132996, 104601778, 126840624, 4798914, 76488058, 95701206 >>,
       << 59092647, 8697653, 120712975, 43547380, 34540056, 65515288, 109303360, 44687759, 79243428, 132605781, 47638271, 2141490, 15523712, 109040165, 133447180, 26091819, 114356968, 102152661, 107624084, 126313912, 29001880, 51626091, 60710395, 115144769, 20318884, 97552564, 88297516, 11790860, 8809566, 112110716, 43960295, 51252112, 59871545, 102638660, 98230492, 70045908, 129796898, 8876460, 37181449, 2384156, 71900644, 21391706, 121640724, 71767551, 24496186, 127164424, 39429976, 100977208, 111704664, 54454112 >>,
       << 41417633, 125923243, 81755523, 86243023, 111381484, 111739105, 106812584, 108868023, 109132156, 15974664, 85994982, 32209013, 60314807, 10701047, 56390287, 106317451, 43762011, 7507685, 76222084, 37387011, 89940356, 85882574, 22504363, 89108527, 108748777, 105041415, 29073687, 88672631, 14204639, 50157190, 121644016, 76512099, 54802865, 85722957, 31649859, 62972746, 131988719, 72300993, 11514888, 106878480, 29891837, 15859448, 118378244, 87732974, 111357564, 82041003, 8420105, 48932860, 14255006, 68807713 >>,
       << 97593161, 10007391, 95182213, 32387931, 51164770, 108333707, 77875106, 107821009, 3145143, 3534390, 37012987, 121158912, 59068945, 79744306, 6463786, 40783910, 58010091, 98470138, 40973433, 37771840, 80319262, 35127386, 8050811, 103345954, 46589213, 91583991, 108100301, 73327306, 8712092, 44105213, 13185704, 81181333, 102083979, 29895506, 82708627, 34220032, 121840848, 20899550, 66372523, 75124972, 75783798, 119001899, 12498811, 134171827, 116148430, 94398414, 84016755, 131134713, 9750187, 83516972 >>,
       << 131184214, 92030907, 21546542, 58252505, 105979181, 112990672, 71793735, 80064319, 7294356, 2833159, 83702322, 67180379, 113265031, 133340491, 57170315, 128475163, 91020608, 6708244, 85965392, 56740021, 110979954, 123772031, 70147046, 9746193, 119794563, 129031280, 111748891, 39124853, 41379419, 115445376, 10834088, 57565893, 120323492, 85723019, 57262776, 116915299, 96974284, 52175696, 12887196, 13801136, 64009417, 101903479, 62625478, 91917133, 20416174, 112106653, 81781731, 37353601, 21903291, 130238074 >>,
       << 262883, 54925681, 119262663, 116156191, 62919889, 6731418, 74775375, 130066508, 3999571, 45940873, 99372037, 69642700, 99862992, 131353232, 46256721, 74406446, 20612766, 37598487, 134074032, 91045507, 1563524, 34218171, 83627866, 86910438, 64373458, 65032172, 95521236, 91827084, 79109091, 130858211, 94251807, 43258168, 94175861, 64983203, 23708155, 38234817, 134011729, 907671, 4493851, 30933521, 7881243, 26480611, 11208904, 49056607, 8657052, 100182051, 105545721, 69783175, 116077752, 55515966 >>,
       << 12396885, 60038716, 46647252, 79118492, 74945299, 81719986, 58412066, 23900594, 103773893, 20445510, 92108201, 41623014, 81976545, 40768531, 85049442, 124809493, 62846951, 56283521, 35429235, 86606400, 128808687, 13494319, 81875694, 36303309, 79161074, 129555736, 113119795, 46471027, 115943318, 67921544, 125118257, 28436497, 24313502, 133600897, 48707183, 10104355, 80407654, 76851570, 5086682, 11106538, 1345171, 18291935, 115545243, 115588595, 108690771, 54158939, 31192927, 28487952, 35213023, 125126428 >>,
       << 83585892, 112079941, 17970818, 131977709, 19451243, 59467403, 123392292, 100920287, 65273703, 93597857, 101977443, 63548749, 7363865, 71337231, 43939374, 77477887, 41063094, 114129887, 91132930, 22202919, 56726361, 67934857, 23126169, 31512723, 82812522, 88411989, 99795848, 48373447, 99508343, 49758668, 35422655, 26643133, 93163848, 37347106, 34368862, 72237115, 105742072, 24405556, 12267950, 32352073, 70140518, 85038842, 561516, 15728855, 16202090, 42057060, 86966890, 115117774, 45482501, 64060514 >>,
       << 54411846, 80801809, 37106392, 104512233, 13375306, 90221205, 129603331, 49748834, 116782174, 130736873, 13778587, 28282501, 83559171, 73238143, 102382500, 119844910, 48654286, 131891854, 49447401, 108177430, 131035087, 33342162, 21084819, 121555886, 125506197, 27485434, 63156467, 48535261, 1868942, 67677978, 101749708, 28951857, 81845111, 66433959, 32509316, 15758029, 62122072, 42898193, 120423930, 22392242, 109496291, 42919880, 20086148, 91459710, 131620309, 96283559, 29576903, 19757824, 37414539, 31504589 >>,
       << 33704128, 93773782, 19427364, 12885366, 99155051, 27449718, 76361595, 46900381, 107062887, 99611620, 64767215, 106246926, 77323498, 118896510, 58042581, 43741022, 126586146, 58676639, 22250681, 74048974, 870749, 65878303, 26478233, 118981300, 29889065, 50168687, 2550813, 1652992, 56413980, 95221788, 34766218, 114982407, 92715429, 43714169, 103521736, 43764429, 96694659, 70222953, 5945726, 134085855, 119890375, 40912213, 104948280, 69595130, 22909764, 82288936, 119764602, 39272910, 5592470, 63868286 >>,
       << 115147968, 91098848, 72619028, 21372293, 69711586, 50874227, 25123134, 49031639, 98605887, 46613678, 70003571, 59147802, 100461681, 24118892, 77381907, 25404003, 116405805, 98320050, 100549773, 60640557, 3127012, 102831257, 57414769, 117661904, 101022547, 21102614, 84562069, 85871785, 48479638, 116626314, 68000049, 127741189, 62147263, 97166738, 29203863, 51073789, 2613143, 70273261, 8118483, 49283441, 47252720, 72275179, 17848125, 110920211, 90790002, 18237898, 56111752, 19274393, 101432697, 27227505 >>,
       << 125772755, 94856089, 89173310, 11099133, 130454251, 54863972, 133361009, 61765027, 50100199, 113976311, 2696026, 8525005, 11322225, 49672955, 26570595, 114100408, 18210506, 85350476, 126315816, 60295562, 100296212, 3282336, 132634651, 104077706, 28860488, 112144924, 40364739, 102941981, 12811539, 111324379, 121400319, 117361539, 38332285, 125790371, 126584447, 59569631, 63994924, 124134389, 45294184, 101618887, 50966433, 114243975, 93679045, 73124514, 68360279, 93495323, 90683532, 56563329, 28392953, 98799069 >>,
       << 65438341, 12045987, 31725009, 132505940, 58999537, 132553395, 79203510, 78899993, 72091997, 63423152, 1060515, 70466148, 4164048, 115658775, 108553806, 92649807, 130337757, 113981558, 44663800, 33309211, 67897726, 24737815, 72427159, 125497653, 78292466, 73921306, 99133630, 133717267, 10100692, 107118405, 23600380, 94550305, 20137388, 87874607, 105068480, 104234608, 29931075, 132130837, 88444685, 116619505, 82106739, 52391383, 107515378, 111083961, 44304598, 60787329, 92332772, 100361804, 48824009, 113419049 >>,
       << 26206435, 101933899, 86591665, 65326548, 106313898, 101960693, 52200114, 36215864, 108238002, 38674578, 44583805, 15270299, 21277857, 84055669, 43982065, 124387826, 51465683, 20761756, 126074835, 22687123, 20561058, 1613933, 72699332, 129480277, 117678339, 88154578, 27583447, 105350994, 37665192, 103563805, 54740331, 111551217, 34412131, 90812683, 36081427, 107371771, 131879231, 17651053, 78931606, 75937347, 92236872, 98488668, 51894485, 16377771, 28145336, 69498850, 7634454, 60071563, 10089384, 75027830 >>,
       << 90969628, 118431973, 126520339, 50476888, 5954521, 122920381, 97830287, 58052224, 76544529, 79540293, 107031361, 87535689, 27168096, 81230269, 80372883, 35298340, 45616471, 9964119, 4957805, 127663525, 51584555, 88318388, 113938864, 71038862, 26800734, 69618672, 96696062, 20396086, 82725479, 18909872, 9476204, 51154914, 19555941, 130776038, 78143521, 69296165, 134208357, 98064036, 50695709, 1974297, 41087924, 93149324, 24902907, 65061190, 68027968, 50097720, 94099864, 66486755, 106702093, 107208642 >>,
       << 14201586, 100690156, 7681679, 32945946, 56574013, 87366137, 25588726, 85090989, 1673273, 48357858, 50546925, 80328885, 44701874, 87421554, 127971819, 87309833, 101415097, 55722876, 122529452, 23650135, 42409912, 84093976, 4638831, 92151281, 78016807, 51448256, 82342710, 40276393, 9840600, 18813472, 28757141, 42829391, 22563514, 73432718, 70960649, 73322941, 82470366, 78172993, 90612006, 106514777, 110453729, 224312, 90913847, 129682425, 126600077, 73608713, 119397855, 69044275, 101964633, 102462606 >>,
       << 69657898, 125625281, 51485853, 102344597, 4167756, 70502542, 9205956, 12316104, 118701595, 120241579, 486611, 61792473, 13349595, 37895563, 79972192, 99932089, 23410233, 122686665, 128693671, 27425725, 94487996, 53721182, 3444981, 32814461, 104684035, 130620377, 55565599, 68630725, 3938678, 68128034, 87262148, 44787645, 131742674, 74940609, 88898437, 67858969, 38413664, 35040356, 104965358, 103330584, 36506567, 28107900, 107671918, 111757184, 65494788, 18029570, 104632311, 15157133, 112798339, 26629338 >>,
       << 23325157, 57919457, 115277344, 106070008, 95825679, 95407492, 66350662, 133356109, 66542805, 114578755, 55925560, 28509708, 115962881, 75036915, 104869476, 127881121, 30018132, 104122994, 126532709, 9751809, 95979537, 78831407, 10190215, 91798053, 123780280, 67686323, 7358037, 107512678, 40859859, 31264011, 68783479, 119709781, 39867888, 93741487, 32304973, 6262215, 103500533, 79359303, 131986176, 62945120, 76503390, 129998458, 65526715, 44218045, 128654947, 103530063, 50439067, 68801845, 96095873, 105643195 >>,
       << 35087446, 23699700, 15736338, 74534322, 16311385, 74643766, 101903770, 128951488, 4422092, 8819004, 108815018, 70546098, 113847303, 100243678, 63421110, 37483456, 62096216, 22297814, 80314075, 12280395, 95751028, 127998872, 92946365, 119550192, 30655028, 14065603, 16514500, 21406265, 129456205, 51867968, 47889564, 83096530, 92845516, 59158496, 41496023, 52029308, 989199, 29152559, 7685555, 17602018, 92078522, 28522803, 14346289, 17841713, 9686009, 65675590, 70843394, 15210448, 60098686, 105569114 >>,
       << 100823791, 2276520, 41395437, 23855022, 94388705, 32815948, 116589944, 18865134, 66294163, 114892477, 42240254, 70582796, 73074005, 74008513, 12333598, 117156893, 10650875, 71546420, 42609475, 82011499, 108972697, 22381788, 3244837, 55633923, 29346048, 3262303, 115029349, 35126461, 15616039, 51144320, 46180254, 17486991, 116164457, 60871468, 22476705, 117684403, 53182841, 12003202, 74253908, 119211209, 76024751, 13814011, 1299765, 77147665, 46187605, 30232102, 13000847, 125384335, 5707233, 2496815 >>,
       << 130670725, 120644196, 110809202, 9320635, 61697695, 80794548, 88424166, 112596823, 24276270, 101701808, 43466957, 8648397, 30266432, 53278715, 116425986, 85527978, 22803202, 20951530, 26168209, 72909569, 87555968, 2416568, 10088018, 28900980, 88919839, 60234588, 128176569, 4293477, 23706474, 4013000, 114161801, 75924981, 87600391, 119096726, 75165321, 119139267, 113716578, 12210119, 111739011, 80094981, 41840510, 655679, 10032677, 116175969, 122927197, 101410532, 37211692, 52098907, 82695662, 52011477 >>,
       << 11054876, 116139423, 94558667, 31704978, 109516422, 54087544, 4812340, 125583661, 62468207, 66482219, 19169734, 120055503, 65891163, 21034531, 4875690, 84928765, 99722613, 37894785, 48917187, 6518359, 93430053, 95697750, 76693202, 128302001, 74008597, 966453, 58237738, 98760237, 113076633, 120265303, 27474003, 92596016, 91965586, 119107413, 118784505, 47087711, 30694296, 32343454, 128928351, 27757470, 48643164, 3653729, 15037081, 128140109, 53989064, 95329078, 25164963, 56534243, 17723022, 43682313 >>,
       << 130746028, 9158341, 4787188, 41917429, 113156677, 111875494, 77335158, 36521435, 50716325, 125944729, 16041318, 65142514, 32783157, 4764128, 117908390, 120039622, 48746010, 89327588, 10015089, 108734607, 97874605, 127186029, 45355718, 13488183, 27775045, 29707606, 88251709, 16854438, 3935025, 79414224, 53124178, 59475914, 27248142, 7396764, 116091552, 116071399, 125389911, 78717477, 112059095, 125745126, 111001889, 106419751, 20109801, 39381687, 130924568, 16176, 64123707, 41526888, 12531026, 85594040 >>,
       << 113075398, 27049748, 45361260, 76109929, 84794224, 91304927, 56318731, 55683336, 45289621, 32059199, 31742670, 75626989, 6695817, 29836119, 106751015, 51525016, 30237614, 88709251, 131573769, 69454728, 128303824, 127867151, 48573870, 64493656, 37305872, 26925774, 29700374, 81203321, 13580039, 78925919, 42961023, 117251644, 67695451, 2608239, 94297458, 1565505, 3713066, 106757837, 74171486, 40056530, 13686405, 52592989, 19006965, 91491479, 50626103, 65517389, 48396198, 5878669, 12418201, 95746661 >>,
       << 41618247, 57784036, 69728135, 32369048, 87024833, 16277529, 35969010, 52523240, 48683852, 730034, 129531960, 111449881, 104901195, 2387941, 30218982, 77516824, 34316031, 103151437, 84976602, 121335795, 132257094, 49683156, 116399995, 113029677, 48419630, 68567977, 96181752, 90666630, 97482230, 96443519, 127586988, 38984039, 52144942, 115473950, 99708958, 38597572, 86279567, 21654232, 7872454, 13110457, 67377905, 14166795, 102378200, 86651620, 122790075, 80236101, 2853004, 18850158, 28670099, 22707268 >>,
       << 294021, 12740257, 50372217, 131202896, 46715435, 14114417, 80536930, 70102161, 73490552, 124999401, 81067387, 934934, 54488066, 99875364, 2123747, 113155516, 79703171, 15044623, 114305680, 65310874, 102762057, 46849992, 4341104, 61261998, 130061772, 46109921, 16104022, 123364927, 131952779, 99720741, 77627415, 124149825, 21678374, 52329198, 109354571, 121280021, 61938372, 63506512, 85093724, 47555956, 107698114, 2804937, 37656625, 53853746, 12635762, 118835990, 52539857, 86906383, 21406375, 88835573 >>,
       << 19510847, 90414348, 85546801, 121799487, 69149306, 84194049, 126958399, 38087525, 133090843, 26344134, 98431061, 81080336, 90445068, 57885778, 46409359, 57039307, 72199912, 118079500, 99787179, 116822352, 85423995, 74906709, 111618762, 101822619, 85763040, 66979618, 105305072, 128421426, 22101323, 1363384, 19083456, 119220627, 469150, 34506224, 113456458, 130169079, 126929791, 74586097, 131409836, 65252874, 10782081, 119422421, 4009933, 111186618, 30516880, 51466264, 105091779, 90412560, 45548057, 30532176 >>,
       << 38158816, 65483005, 50545685, 100942542, 39641773, 11863148, 33892849, 39120460, 105387082, 19146991, 96983350, 129362201, 95387829, 115493131, 100154724, 62950174, 15434718, 92103964, 121719243, 78120534, 125574997, 58765794, 125850877, 39652510, 45246912, 29243743, 8647179, 115914242, 39808052, 48765052, 77909110, 49419358, 47664789, 2056964, 128472087, 75152905, 128975472, 6834788, 6676058, 19481345, 84306105, 82840799, 120491731, 2478262, 131541804, 57247771, 96489007, 78213528, 46988543, 40937767 >>,
       << 63145540, 26279746, 130712239, 42296734, 57005667, 122308760, 123129922, 34128433, 18150421, 108911038, 60274292, 92332064, 18656008, 79658633, 34118982, 27263444, 55409278, 84448166, 12460240, 5103106, 128034974, 105136099, 81899686, 3329229, 75899159, 69888222, 126219944, 21405901, 35040338, 43406228, 7608335, 86567401, 69996788, 15626665, 35449104, 95263142, 57794991, 89256684, 39879782, 59317927, 5530429, 20249236, 112211255, 26589942, 56148977, 809415, 59014228, 39674981, 15078789, 66033016 >>,
       << 7952208, 105273981, 57430693, 1711830, 22469193, 23281487, 48721761, 22790131, 45046975, 43352344, 121878598, 122911109, 27132629, 88683286, 88371514, 10772489, 25260790, 34172610, 99724136, 12523363, 60412306, 56540768, 25028275, 133406404, 25059720, 73281482, 3780228, 121800013, 77309094, 46496785, 40153735, 124299729, 9296436, 66006460, 49657375, 35688957, 91129456, 4238628, 12913709, 52125840, 33195285, 131193148, 131239123, 60281349, 82417639, 4854944, 47109795, 103530077, 73734495, 35992099 >>,
       << 74419362, 22108776, 74317635, 15248683, 59808943, 25223298, 82351274, 27402702, 28358428, 101353515, 113792995, 82004417, 99709667, 54506267, 83005212, 84635607, 121306689, 13867754, 3529954, 102118268, 123098615, 128791188, 102441223, 119358963, 127777754, 72904305, 21962633, 107555764, 78523104, 56812324, 87472857, 88712431, 130942933, 47506330, 58259483, 127805239, 14641609, 18336550, 109009819, 8174776, 104883255, 112841902, 126505384, 51374196, 38237513, 51870271, 37282515, 96751203, 54867296, 112302398 >>,
       << 126491617, 134213922, 64358670, 50469046, 34858154, 62214791, 74491343, 109601608, 47728178, 51326806, 22759715, 44411822, 120656507, 6407229, 74501656, 35095707, 123707743, 47377724, 7780433, 99949107, 91335193, 10436550, 87076596, 116357533, 134048193, 118876513, 126518322, 41030729, 33260942, 106608387, 132097062, 111155655, 129513282, 76986290, 77893140, 75804208, 20836326, 47805961, 62881956, 118485652, 2095630, 118196164, 77862790, 77705551, 118667787, 22901808, 69074008, 57972622, 16080092, 1111960 >>,
       << 19361494, 69923012, 46218051, 84375039, 44955799, 102637635, 111760942, 14370481, 33673119, 31999821, 70962614, 90755908, 115201995, 20552542, 43262966, 91734880, 44770076, 18918694, 1504132, 33032985, 24918570, 126007757, 124218403, 90271988, 116638430, 97308127, 72679492, 102170927, 54949523, 45278020, 111787372, 75755055, 15813637, 72037685, 102348169, 129455980, 16399375, 115574876, 112637343, 75537487, 106254217, 114673964, 71014143, 4741023, 104549202, 46827127, 24921059, 71146587, 114923894, 27535807 >>,
       << 108625281, 81165467, 103531609, 134170795, 118348575, 5731884, 114112044, 115543941, 45481326, 26140477, 2028417, 130293010, 58124842, 65630621, 29435798, 119394672, 2009221, 98509397, 90025759, 72647704, 30196334, 108965394, 7124542, 30467024, 75432029, 120964686, 70772219, 38857261, 2491156, 14039638, 99001950, 57816416, 85543216, 63720718, 62266063, 106266577, 53935119, 79520075, 19101922, 93422614, 92426434, 116902182, 8746572, 78071161, 116107175, 86797358, 16511344, 98576833, 2332416, 44074654 >>,
       << 1704822, 113360086, 65713961, 118266046, 13629768, 77663680, 61498351, 4698131, 80782535, 47512472, 131301125, 65100428, 39357654, 130400074, 122312410, 101940416, 41142480, 46754707, 125655543, 94846910, 37224820, 3288189, 114039706, 58585158, 79335784, 126661246, 132651969, 133462161, 15617165, 119403769, 41527681, 33183143, 68428857, 61015095, 107170363, 58248876, 63192975, 27817966, 74129056, 86371305, 40961718, 32975038, 15629156, 103576778, 92855536, 124252257, 85058581, 42604474, 100007039, 107506411 >>,
       << 50017373, 55452283, 66483275, 56990273, 81642407, 42206614, 80458662, 122768459, 61987357, 83876917, 21944468, 75590911, 50617967, 24166763, 98899937, 54886627, 30411139, 22020416, 96099442, 63869876, 29318531, 22467933, 129290566, 35496712, 127207552, 30650223, 65636143, 101474777, 5756641, 25589302, 90783462, 115658477, 85188032, 82651221, 10582596, 76634982, 89493203, 132646399, 5407643, 43817362, 54904534, 54425247, 102648307, 43103312, 91702533, 108146709, 130948196, 14657843, 124006474, 125683504 >>,
       << 35642793, 8441128, 91969737, 31349703, 41364717, 25661527, 2826250, 119827314, 60173994, 53308031, 69573553, 87493492, 114880266, 30960879, 20174685, 127416215, 77483835, 104712949, 68050395, 59587011, 51626882, 108804897, 93304104, 73458659, 11522536, 86025578, 84968559, 100466991, 57908811, 4481977, 125172439, 47542933, 108763304, 96767894, 84190390, 11643196, 78250699, 13861248, 63188532, 106359473, 997753, 21493955, 91363103, 35973860, 24975977, 116192021, 31909375, 57412973, 100576416, 32254534 >>,
       << 59248615, 33601760, 97829463, 88796322, 28859609, 62075226, 33471718, 71687404, 6074579, 9043932, 29239975, 130189621, 10099242, 70535662, 133586885, 35271577, 25874262, 38553072, 10075844, 25292286, 46232399, 115358483, 90458043, 64632066, 96065936, 16014825, 108017466, 58712168, 100611157, 75368322, 19178232, 55573433, 16687988, 8775093, 14583148, 99381048, 134057633, 38513803, 61910120, 51237889, 124178447, 120368181, 22894239, 3378572, 59758324, 27510972, 34270950, 61909709, 72300095, 64622604 >>,
       << 118893561, 106185537, 100678349, 30729946, 98379692, 46145337, 41880742, 16245985, 37657534, 110705004, 129408837, 43435937, 125056055, 46840564, 106501971, 125408907, 56043832, 116879676, 40979212, 60675054, 121160118, 125794743, 132851456, 26037491, 8618261, 87497502, 13114809, 104480430, 53207566, 68700118, 71644346, 43864484, 79517758, 23638886, 54294421, 54012371, 31057204, 63541182, 85508509, 97462572, 2527833, 1851426, 73207375, 116524747, 86855362, 70153338, 119186780, 81123666, 36042076, 30010151 >>,
       << 73661220, 26084448, 6086426, 16720230, 40025496, 73418153, 89643450, 49111385, 63608800, 68062142, 98757427, 133600700, 119463880, 13965235, 54304612, 50133318, 121060840, 58192673, 1311788, 69670047, 71070306, 129919879, 6340380, 119458790, 90976097, 106327707, 126701425, 35514329, 120401921, 9197831, 68216886, 91776392, 83325179, 5066342, 100804965, 127489782, 90059214, 17429420, 37755672, 38162499, 127238933, 53975220, 108237076, 96046416, 24774343, 74591044, 70713738, 104924516, 22880493, 58012969 >>,
       << 8804950, 62718389, 27544893, 35205688, 92943301, 50671655, 4561293, 124487644, 126076795, 108921183, 73163118, 61406153, 29196386, 102555889, 108496175, 58241151, 112004527, 27060576, 10494814, 35152657, 75695361, 26192153, 92549489, 12574690, 69293849, 11460088, 25499383, 60588980, 122258775, 17944432, 102423439, 20361395, 79117647, 99070847, 27034486, 69806370, 99915166, 133631147, 927942, 41007384, 45548514, 906671, 87232637, 30763894, 440936, 104183988, 120540879, 86193073, 70418302, 105644726 >>,
       << 99111147, 30850867, 37203029, 76193536, 15024984, 87849807, 10859238, 53934190, 38416924, 65777855, 55353960, 34235150, 77930971, 24819751, 97355457, 64059068, 26519872, 75277976, 92668949, 130711085, 54643010, 74488568, 108701627, 12852628, 27308590, 117814913, 31388966, 124264317, 97718523, 63761969, 87104002, 17648722, 119192288, 93771543, 21658059, 85315318, 65415337, 108693677, 93360537, 104817226, 74946680, 13860004, 74929162, 10092196, 48825550, 46352804, 120537327, 27855920, 88471258, 77797891 >>,
       << 24884388, 48995330, 92392136, 67626018, 71796939, 33429656, 4587333, 125161241, 23475529, 11861177, 26856642, 53354936, 65321395, 8517411, 54772783, 6892493, 87464799, 32013862, 32796240, 67599811, 41729434, 9753625, 122657502, 97438381, 63560263, 101901610, 69941392, 61079355, 54178925, 1790375, 20742075, 68571848, 66185035, 41576773, 80241782, 133425608, 1928873, 63361091, 21456607, 55517458, 122588240, 92734011, 92034362, 33671926, 71236597, 68291602, 9523473, 510117, 45433146, 93259096 >>,
       << 4064390, 33310319, 78874411, 11821384, 56029033, 64528137, 72078519, 10004231, 23304763, 71281123, 68548836, 89818502, 32661464, 59623480, 81816828, 85054226, 29714965, 80763816, 86989107, 72483854, 44148958, 121561982, 85121244, 76145015, 29969813, 126401926, 101580391, 133619158, 7766277, 104299791, 74646194, 119824269, 20839000, 129592829, 128859456, 106405790, 24674103, 105649108, 60134699, 86737935, 128177164, 69376143, 12939371, 36761551, 57136313, 76795741, 46757695, 33544711, 79666963, 42506990 >>,
       << 32894936, 111069889, 103883532, 56605517, 79196559, 69334558, 97860982, 19950758, 32611150, 127026610, 129720706, 104190885, 23398788, 5736134, 58877449, 22467144, 84871146, 40334048, 109282702, 68676454, 55609613, 13305397, 115402120, 91149687, 11475230, 45722671, 57957234, 107343354, 119371737, 90198124, 111595920, 105775609, 104842676, 100991723, 21379674, 31030995, 133331732, 6977416, 109736183, 93283985, 52184230, 66880359, 74160740, 3940437, 8659440, 91156976, 77309897, 37505587, 51769923, 65929505 >>,
       << 5020681, 133542977, 11361832, 37171668, 94456276, 132019882, 10396516, 113918846, 20188465, 75344427, 119101596, 133590743, 117495, 34268909, 39574632, 58723377, 14118809, 133128792, 132140924, 119047307, 115960479, 21268350, 4985965, 132502036, 75409053, 27051056, 101640582, 56348425, 17201397, 38247784, 73618284, 59919494, 41281428, 67617669, 44255132, 54048729, 24940269, 28731561, 109559056, 60219988, 73086704, 86777171, 130883835, 74646397, 57140312, 94306151, 9425316, 64377166, 124375315, 29711141 >>,
       << 107774730, 107526430, 17439443, 107073850, 60680126, 61631699, 130038440, 54657165, 3400255, 94421807, 55836568, 130758676, 101747340, 25264487, 82036648, 117575403, 87263013, 92151796, 44536775, 85982837, 8894259, 94743995, 32236255, 54712388, 74803804, 76371369, 115402061, 78132101, 6608475, 57263128, 48282648, 103697258, 63688685, 39161713, 9992912, 93689075, 55416446, 79680169, 73656035, 33689698, 86492062, 29434515, 128586292, 119146667, 55728340, 54313362, 125022390, 95075138, 32706628, 90658185 >>,
       << 33096758, 63837621, 99500612, 111978096, 111775449, 49865857, 55899773, 104831596, 11492085, 121627215, 115512227, 68075420, 36555375, 47452078, 29719626, 45990212, 64673113, 60785421, 64647294, 95895278, 66567593, 119345852, 70408008, 48612533, 75545586, 18534946, 92340767, 81790169, 37121260, 129458184, 45526505, 67793572, 31368463, 55565939, 9893263, 71903532, 130588355, 91421177, 124664382, 108000428, 68861681, 122405276, 93664766, 25749854, 59030519, 39142872, 41883268, 72655645, 117598390, 75909651 >>,
       << 121329076, 22306534, 25516008, 101815324, 83143612, 119009303, 132805187, 50644341, 5037404, 37855818, 17519037, 36060709, 35833311, 43539466, 583393, 24483343, 47165100, 111750250, 113714064, 52336574, 66643379, 85957290, 8353501, 20858205, 16178913, 132351343, 64342479, 108986410, 69395409, 23227478, 82926267, 44676586, 105962582, 128795920, 78881680, 74543354, 73357669, 122538865, 9613266, 122559392, 53413763, 101874469, 14552766, 97077590, 452009, 129189163, 31426731, 58808628, 96739907, 55168159 >>,
       << 27960648, 102549941, 21722927, 79067663, 39158370, 342788, 29902833, 111942305, 106339711, 68172963, 133256396, 109983110, 97473740, 128434840, 4153978, 40804903, 28705261, 65880335, 34287439, 12083227, 83904359, 21040512, 58658956, 81999767, 119713386, 110325147, 73675199, 125871331, 1289447, 68787591, 98133433, 50374962, 42791853, 42818348, 115237115, 16122691, 2037384, 70331332, 55459262, 104246756, 114516748, 13646357, 82506154, 110799901, 79669913, 62078107, 123204044, 131620132, 413540, 116316560 >>,
       << 66575651, 113811631, 97358510, 100165611, 67436131, 27780148, 83838498, 106126337, 27732716, 91055609, 10747850, 31529216, 17167129, 83548101, 40800908, 4332363, 22342954, 90764383, 63209641, 106614690, 49276962, 78927122, 39048137, 24375393, 48179562, 121034734, 5745364, 8852895, 119098222, 126228002, 54161408, 50127664, 60171070, 48914484, 48974409, 42861515, 63723669, 40437200, 69984774, 50737877, 28479433, 85174804, 19926155, 74523599, 9561915, 130532578, 1443571, 92004374, 121680111, 89430097 >>,
       << 66492787, 89877331, 100423735, 101264102, 427367, 105255731, 45752308, 52921286, 7961623, 116963846, 119342349, 45282905, 132973828, 42217608, 64269483, 28209978, 70245656, 96244124, 83960183, 102423583, 128392539, 112488967, 38097542, 15542115, 6817369, 76805332, 54321491, 889793, 104530288, 3849600, 100175834, 57927040, 124568542, 50939407, 111138720, 15627814, 54763549, 117924195, 130699103, 107922349, 90468922, 115627514, 8970926, 88582540, 46019573, 25995111, 131992994, 10641645, 59123613, 50796896 >>,
       << 54475620, 2798015, 107978979, 93001248, 22082014, 39363766, 39174282, 93095987, 50267929, 50546962, 80641516, 62145839, 94271896, 79171169, 12267891, 68486658, 11357741, 39373003, 28577931, 30889293, 101891014, 92673794, 120270685, 117953935, 109639817, 51951154, 116341116, 83188304, 130877759, 60605998, 44042299, 61494632, 44613944, 113676658, 106312060, 48578622, 35280103, 52774253, 105402506, 2241787, 51607457, 74704832, 25573558, 36013544, 103994841, 134153338, 24247553, 56092412, 2871914, 50025881 >>,
       << 26086038, 31603844, 116913458, 70449660, 73356755, 21126044, 109101709, 84509825, 41647174, 81604458, 94546962, 79030193, 127855813, 58416205, 78971775, 53721448, 50622451, 97433315, 6734912, 73381520, 94516692, 104876933, 114748558, 125804939, 97427342, 109099378, 92007340, 15477315, 68973617, 62579384, 101709982, 42979487, 69461481, 74621602, 4858322, 38714790, 14492780, 38805849, 85822144, 2637517, 25899062, 56242071, 131684835, 29938207, 125852902, 41044643, 70657952, 59715139, 34910171, 44780981 >>,
       << 14132867, 18537291, 107642082, 99741693, 52390820, 16232261, 121846112, 75666029, 118089477, 32364409, 116310243, 60422800, 82203715, 7586415, 116225049, 22107762, 21228624, 87906529, 99645183, 119969991, 81514114, 27955933, 118000718, 2955467, 80619291, 86780414, 92321168, 39086854, 39501114, 28917021, 126668440, 126098085, 9416082, 92141462, 21921179, 11377185, 106176990, 26480822, 36866651, 133363239, 114066634, 95694374, 43425075, 44340018, 111588504, 58992211, 81424363, 81984273, 80069881, 4101013 >>,
       << 123439426, 5492210, 63815494, 24902601, 45988149, 53831412, 51990796, 104910192, 114346153, 114433974, 101439323, 74761345, 65110832, 17598626, 125968271, 33492869, 7704254, 51216147, 85984575, 28150876, 126319048, 56250312, 46769246, 59961144, 115899474, 70716765, 130889985, 26586421, 59332348, 93655967, 9891997, 86885968, 91403694, 49699449, 14651096, 129508501, 105696640, 7060670, 38227663, 13293407, 31694617, 53544234, 65187118, 61127013, 64864146, 128096661, 50955165, 133784179, 65311817, 81363583 >>,
       << 48488991, 107983862, 77847711, 88104243, 93039746, 86404090, 27075340, 99775087, 17263070, 96571435, 127797321, 17797295, 36414583, 116806536, 80728890, 51409478, 64349348, 29275796, 62802428, 10679052, 79101664, 56596415, 63304155, 42091721, 44081916, 104617879, 60606217, 78198069, 131775722, 15873929, 108589871, 17741020, 4041006, 112405387, 81173721, 41035568, 44893528, 35429736, 89928023, 3209445, 123826799, 21909297, 72221637, 94605124, 83829645, 118568122, 92308198, 37289758, 121085478, 40015518 >>,
       << 27296885, 75137464, 124254105, 98886976, 70910174, 18555229, 50609171, 112803966, 78920763, 59978126, 54181318, 76695213, 37423960, 128306898, 16251389, 31614577, 90609185, 52164109, 51926405, 65351199, 36176531, 102882236, 73269627, 69914874, 57234951, 112901131, 67942112, 81112472, 132898022, 78265544, 52458736, 80869358, 116985954, 1094670, 69707613, 102812143, 64280797, 69553922, 56891719, 31131150, 75812225, 122528961, 10565606, 132459707, 128059521, 39865086, 16401667, 72374339, 92972820, 32124975 >>,
       << 43426428, 78394636, 5123189, 100111031, 97285522, 120683154, 83647651, 38292625, 81860033, 7105323, 92207405, 37775818, 106025779, 39061399, 34951912, 62607845, 37424925, 24999081, 61477293, 7153289, 60764573, 18482754, 48627236, 40286384, 36600419, 46115831, 97488021, 20208029, 64481256, 75258597, 55292979, 8555544, 8175520, 80741284, 44834875, 33896002, 61749132, 111026869, 87138125, 21892181, 73767037, 63787464, 37213976, 121444324, 7356885, 61253468, 42628326, 131552527, 12128884, 117049124 >>,
       << 82361799, 32975698, 82000458, 16630455, 125034367, 33896774, 51248326, 107085200, 978598, 32109407, 60241479, 73301442, 22594221, 131745684, 75007742, 126248955, 118399212, 4159480, 30653681, 42163979, 55553402, 70221964, 127458616, 80306501, 81780371, 92507871, 15455115, 90726425, 121340765, 2496864, 75138972, 87533338, 86802484, 49939511, 71798518, 66411958, 64465950, 61612775, 56967, 119540535, 96580296, 63040981, 48080622, 3946400, 14268949, 25687866, 77271741, 87784836, 90240882, 83763240 >>,
       << 28922924, 112479665, 107731678, 80615241, 84278378, 23265658, 132221684, 43259586, 52840139, 129977701, 127316403, 60646296, 112410540, 82135579, 124866641, 133758725, 134193166, 133198900, 64175356, 92826739, 103557895, 40866763, 103776833, 90798776, 108704290, 52937301, 109316644, 32860242, 12346755, 102418063, 131858656, 64317394, 104382038, 64744964, 8999119, 69628631, 54124001, 24333153, 54536887, 54544194, 98129061, 59007642, 98626050, 102708116, 114198744, 70802516, 55185265, 9395470, 54190989, 121069298 >>,
       << 31196548, 106774343, 30395328, 102757604, 75391278, 52657439, 27867592, 106182394, 71691097, 16022921, 32452521, 1389244, 125957053, 26559414, 19114425, 99887863, 107289952, 55039280, 17424909, 40674177, 91917616, 109959712, 82540166, 69217845, 56556542, 40689312, 3654196, 81878418, 33938919, 54009219, 53218259, 49159578, 108603664, 110737356, 37152167, 76104367, 65298403, 60734643, 4068828, 104385434, 41983557, 30198707, 52901560, 39855029, 36107816, 129356747, 128239664, 107758161, 33345596, 109672767 >>,
       << 34454686, 129628586, 75584161, 87219972, 45162202, 38555946, 13849303, 17710839, 14621304, 87611409, 62421642, 51041742, 22868968, 6495690, 121474332, 72595012, 87530018, 4215015, 113795665, 10235011, 94037099, 23707331, 115969063, 71274611, 82643616, 33491715, 120357522, 34180200, 123196830, 68139535, 21947291, 71489107, 1228331, 123094172, 3163185, 106012751, 90477524, 79083928, 21864012, 110436857, 2520519, 47694326, 33030347, 115224870, 51716930, 43130287, 3473993, 38766825, 84957747, 47633184 >>,
       << 53604794, 70415512, 57219211, 83079615, 56205839, 80351910, 5292033, 5146947, 124471762, 10687908, 80679552, 22737508, 117649161, 29323674, 25252222, 12009003, 105446043, 121618890, 42431185, 17855368, 108199199, 40327945, 1957010, 127452493, 36558743, 119768092, 127896519, 16486098, 124534191, 42045139, 85532165, 61226374, 43896468, 68991841, 92544601, 35821502, 93306938, 107578679, 19514103, 62031348, 56794885, 69426749, 56001353, 131004547, 113495318, 12508527, 87463492, 108822905, 23428258, 64474823 >>,
       << 60272497, 109276377, 123102349, 97741373, 128157707, 113001052, 76587111, 99691837, 114087842, 26487574, 107955045, 32414762, 30360075, 32081122, 111261795, 44120811, 58504096, 125983061, 112935075, 82617998, 41703184, 121400788, 20761894, 2674054, 12573399, 74009120, 35936923, 34426532, 106907679, 43014413, 60095645, 52846649, 129272586, 50761920, 11270822, 55588835, 116609369, 110902041, 96272757, 89722711, 126788131, 23521287, 118679817, 77213046, 112908343, 111584034, 122666063, 95953431, 103526144, 48855153 >>,
       << 7120171, 98161164, 55622246, 37761076, 8768325, 1864258, 28696517, 10443908, 71757471, 41194165, 8455178, 85404832, 87322542, 125878431, 117865488, 133048117, 65342229, 119151065, 32980492, 89706562, 24239505, 85690045, 54752989, 49472907, 110915418, 18864775, 28447499, 34310321, 85166204, 134105528, 57448759, 49587404, 94105435, 119884790, 120459232, 48587342, 37774607, 57644942, 100363793, 8529220, 17109332, 109817875, 88461564, 107402170, 8261782, 29579104, 102118711, 101912786, 72698101, 37640898 >>,
       << 98975826, 131375333, 55211852, 61063859, 90653005, 23289986, 58464333, 34938109, 40629701, 90578992, 6952434, 10217473, 117130396, 80798118, 126627283, 110340023, 101156423, 68855398, 82899883, 23204251, 94671922, 132293874, 68469196, 120552169, 80747416, 15371105, 119804380, 40275573, 91220771, 28206748, 111045667, 44821499, 131812590, 28456871, 45587114, 117640094, 109428359, 85982938, 35185047, 110803639, 24181715, 46016753, 84502173, 95976671, 129385997, 109856420, 57683606, 16827131, 111320201, 132264123 >>,
       << 71531241, 89704595, 115896857, 56752122, 108193396, 100387491, 86774369, 313125, 66639928, 93088555, 132840764, 68609845, 11362549, 112164208, 101819102, 33293999, 104981197, 128493558, 134099777, 68019354, 38080986, 130034749, 95510048, 61018090, 106715056, 44706925, 113657351, 9795738, 32865053, 99183172, 102636030, 34536250, 103967547, 5820679, 62169465, 90282930, 36669497, 83005306, 11839330, 67510269, 116694690, 98681757, 42586197, 2477146, 50238229, 93791715, 117700548, 71897187, 118742008, 130021545 >>,
       << 18596679, 89909315, 34955182, 6951232, 101765517, 46408124, 90143308, 125328556, 42314549, 103192283, 36162961, 56058440, 95618950, 47153554, 10479701, 17601303, 7980106, 53890670, 82788466, 3098232, 88834990, 84199359, 86527720, 57815238, 14582701, 12846161, 83783542, 127076512, 104992894, 96907738, 46812216, 103522114, 79439387, 60979572, 29329906, 85788898, 59006020, 20875475, 44049724, 31997664, 106122417, 142112, 31143171, 15949543, 42358308, 71825933, 36624206, 50812768, 41523717, 30588266 >>,
       << 129643659, 102518525, 79984825, 105035038, 33589412, 36435454, 119727262, 111927590, 101797390, 17141273, 73423790, 2204292, 92335809, 43005652, 34114825, 90296495, 2263579, 8211628, 78444494, 132851830, 22133728, 104639755, 122274294, 98159362, 101225608, 28280261, 14423852, 77173982, 47636644, 125371171, 124133555, 6419793, 128290361, 63374043, 75188891, 66640445, 32606373, 2025677, 118180833, 114349775, 45938685, 91877448, 25360345, 78091781, 3620098, 113968603, 5092983, 32198069, 101872069, 36449077 >>,
       << 85096555, 98131341, 102484671, 84886032, 28074163, 126915382, 24989457, 100127665, 83584792, 21348472, 118102424, 52125828, 19084167, 3369963, 119937817, 44402565, 91450135, 48896215, 103209731, 95159992, 49350616, 94873081, 46465093, 126077394, 124616188, 97284494, 133236956, 51348214, 109918524, 19819709, 119200500, 67778568, 40471120, 81470109, 66817037, 49857532, 51614984, 106925613, 46318544, 98413170, 124032316, 59401015, 73331913, 92803857, 29479606, 111978012, 132097870, 108751921, 30794451, 79765380 >>,
       << 32607932, 80847706, 77906861, 103734186, 38827210, 27852975, 9615379, 3957323, 77625178, 91541684, 47124319, 10663247, 130337836, 72409988, 67724130, 68244755, 47444596, 102255023, 59716139, 73409743, 59041161, 71236704, 123632051, 25072783, 105389426, 118204026, 71047936, 126196871, 114806107, 2030148, 91114105, 113612867, 75949228, 45648211, 64732794, 24173957, 97447726, 116643880, 111449878, 68416141, 32514110, 81067373, 59820547, 69582798, 26652530, 1626331, 91552407, 114613768, 9554390, 75276617 >>,
       << 80867545, 75491359, 58004174, 109202653, 48501699, 84713208, 86360921, 78988909, 115052388, 102928302, 91323621, 70146202, 39246660, 54252448, 101451449, 106497683, 85233316, 92855332, 98145618, 2379121, 111746740, 60517081, 101157856, 39236250, 45831667, 116649512, 56311713, 21121184, 89833848, 42866696, 91122390, 100185072, 50625447, 85943665, 62781422, 475699, 120253445, 28078195, 122433493, 21010826, 60063654, 13342054, 126069872, 71711273, 108345014, 85746891, 68125483, 60029158, 47872910, 69847852 >>,
       << 60666248, 110398787, 44051462, 7174555, 106658695, 77814824, 74110536, 116861321, 4276757, 89191837, 17737889, 4638071, 65181112, 45822116, 118926242, 131736185, 88987822, 121636104, 17028687, 6126461, 33834028, 53739296, 106454749, 120019643, 78573772, 122300626, 6307679, 119006686, 62103995, 131650447, 38591562, 27938376, 77982373, 2801081, 84931295, 53539496, 110848085, 34856590, 123425855, 71533615, 33741760, 64425917, 133628679, 66428511, 25520607, 82393249, 22514597, 5561083, 20004537, 39979722 >>,
       << 84439139, 106626095, 34279242, 110688541, 120273856, 104560474, 36093287, 1748951, 91545496, 64111113, 31611902, 85288777, 13588436, 77062082, 64932699, 10832250, 121993942, 72668121, 87606853, 83771012, 100529076, 90282556, 55873, 16212509, 9068751, 24276541, 7774499, 101641759, 26287663, 101645059, 53360110, 65538147, 122108904, 24132776, 81929722, 91419723, 130244532, 87101749, 9665614, 98646594, 52987154, 82998231, 108108012, 84583783, 33913420, 124528761, 16820875, 119884204, 58190973, 11080244 >>,
       << 131372092, 85714340, 104237022, 131792050, 52654484, 55714968, 88890689, 56411157, 36854409, 64882993, 8896148, 133011269, 3917930, 65594075, 93197972, 76925521, 29511127, 46515537, 24555215, 59454106, 45855680, 56411714, 49213486, 18143299, 132694043, 94087470, 94925309, 3347310, 72975258, 33281302, 14280343, 128003352, 91897849, 120942185, 120130709, 102257392, 100812665, 25873835, 1534949, 87432056, 693328, 10097910, 98852776, 51842438, 10744651, 85300621, 116204761, 70449736, 29689818, 23954309 >>,
       << 12157326, 44362975, 21251766, 132764182, 76335028, 125479661, 6274795, 7974536, 112625088, 128145037, 66074301, 39621899, 9323512, 108359136, 99099056, 51430193, 117612277, 50673912, 95474704, 93379785, 35942449, 28292455, 127426444, 5057815, 73798260, 50705939, 3248190, 107756495, 39831072, 19913527, 74654507, 115068452, 89045683, 31560113, 12941629, 53394721, 65865373, 18830077, 28489022, 17542720, 114259919, 133044907, 40358916, 51269135, 112310187, 99252008, 33840797, 132270514, 37684645, 63645470 >>,
       << 15526477, 5118628, 51107394, 6475229, 106129688, 52808668, 8228478, 57721491, 60964539, 128767293, 86422190, 31795833, 65960481, 121854555, 60817881, 70915744, 71354722, 118855936, 83021539, 22081546, 9717327, 34310978, 16407953, 72931758, 15821357, 5282137, 8048100, 61623610, 21601146, 108222310, 81614624, 3412435, 67616569, 88678041, 34522667, 63206339, 83302663, 108709840, 126704360, 111629723, 71546589, 96635971, 6239416, 97497772, 14056956, 87953190, 12754821, 61216730, 8181011, 98629866 >>,
       << 46284345, 102998129, 52439689, 36429883, 62404615, 85593031, 116755381, 91000529, 57520586, 99347807, 44431738, 72390649, 84529590, 49709474, 61007704, 101515006, 48943866, 60379296, 79532873, 2857263, 118970562, 30235707, 108119911, 98180725, 30188089, 53481086, 84346710, 61896939, 116861257, 97741401, 42976518, 84990767, 79063681, 100711190, 97699070, 123661189, 37514551, 103107607, 65659837, 125046099, 80960611, 131152861, 11155828, 111864778, 130569657, 2782247, 109835694, 78263481, 102133160, 82945169 >>,
       << 96117182, 83063113, 78379862, 112525521, 83995408, 29184898, 99627741, 110678120, 126375646, 64838263, 71035228, 37896986, 72468717, 96130959, 114501832, 53984424, 42209923, 21774815, 29153741, 103470161, 5769130, 72215428, 598465, 38790592, 42388162, 112663572, 28723526, 25984086, 35509197, 117705863, 28458652, 3329203, 35398349, 82123746, 109766898, 73090896, 23366938, 3495099, 105700043, 62143971, 113904947, 4332220, 287861, 3148100, 20658092, 52700505, 127904276, 103247506, 62895999, 46910960 >>,
       << 45305375, 35150449, 59951153, 46602746, 27155007, 109043724, 95147234, 104128608, 82686780, 58272802, 108037681, 39005580, 106018874, 95485304, 11993726, 127302550, 56960271, 28295650, 71001657, 18723604, 45835191, 10827128, 13971664, 63230673, 114591543, 109870297, 18933267, 110084715, 132366562, 85182020, 27155220, 7073005, 25831420, 113103573, 108608802, 46836354, 68042648, 21992107, 12043539, 63713166, 107576528, 128558176, 23525469, 131781175, 52115368, 128400328, 30215769, 91960233, 33312361, 116175545 >>,
       << 3917318, 73025550, 102900933, 121719693, 7104299, 105061555, 126969170, 100486382, 123215188, 34659708, 74274712, 125256245, 130643537, 113133623, 109211688, 85532360, 132746713, 85595444, 1746396, 71842223, 119323153, 92794735, 69192314, 95761825, 57611394, 118184456, 93233000, 10613190, 14403481, 22315864, 103585572, 49302897, 67393078, 2778038, 40612277, 40875760, 94232611, 118076964, 31093609, 8063407, 53392853, 131744477, 42756327, 91458426, 111257345, 104534505, 62334125, 123828247, 64922188, 17028262 >>,
       << 12449481, 13411524, 17923223, 59756704, 14363661, 94270221, 54313762, 69327797, 14187211, 106162, 75788291, 71242964, 120793765, 12717453, 129460266, 132085222, 114223795, 88517599, 117048177, 60918229, 134115749, 55776637, 120836340, 57567281, 130751710, 31269925, 122521900, 49318619, 17273211, 11441733, 44805339, 20433459, 125105792, 56132595, 64960600, 27108827, 111148819, 87705045, 60612666, 15374095, 9756490, 1677049, 60666429, 102653693, 881835, 125627119, 53007448, 71689927, 55083008, 70595782 >>,
       << 86540699, 58135602, 36788075, 56261978, 133157215, 99076298, 111597747, 41223173, 13535839, 39033844, 63439255, 118966871, 31571946, 46965181, 117422605, 81453620, 112730747, 41723183, 57409130, 73719889, 76406352, 45054649, 25693363, 85335171, 62627810, 39167440, 131131439, 24928524, 46008784, 23138395, 42615260, 61655048, 59627284, 124202884, 50980053, 72258593, 78241090, 112017863, 76456040, 85909978, 93245942, 65942887, 96294413, 64744682, 108883042, 101118995, 29675594, 91337146, 111350733, 76845199 >>,
       << 50187647, 11869851, 52080402, 84085852, 120864527, 51773993, 4564289, 30139076, 97327182, 21620560, 130750151, 89667099, 87350697, 33440915, 88125636, 64481042, 99267287, 111227722, 4044297, 13401476, 35572859, 90778607, 97240425, 2277453, 118359254, 82548559, 47370530, 95627852, 86769288, 129687615, 8291290, 91118442, 59041765, 106840235, 86717061, 108812724, 10291302, 47130147, 86454161, 133626209, 103030070, 13099098, 83347196, 81862211, 126967454, 50999937, 97763528, 89580808, 84714232, 98975457 >>,
       << 29863461, 18902357, 30010643, 7778528, 87308644, 41199036, 65453166, 122257129, 65942331, 20259794, 45203038, 96332374, 79324145, 56178694, 10106846, 94223295, 12276205, 48506018, 85715872, 129453147, 86227082, 81690471, 131085928, 94643216, 46247356, 92167064, 91902228, 84415276, 115224357, 30861745, 30884026, 107958247, 104391183, 67796685, 103825792, 39085719, 12297845, 52820887, 16871819, 124026464, 101570929, 132616382, 91721548, 109564478, 77801254, 91735912, 130499701, 121958930, 120999393, 103926942 >>,
       << 2323115, 58305346, 24854986, 73489813, 98664837, 102534724, 68297406, 11688941, 43072211, 96588382, 93360595, 97869674, 54845385, 53365675, 7189981, 88803740, 111177832, 106242806, 121947003, 25905790, 3585240, 130242255, 124838966, 77267518, 71826156, 7782626, 47158624, 126385667, 11253777, 85752301, 70058340, 28919287, 35307128, 124964438, 26848219, 36790628, 109478018, 76158678, 27492180, 54681948, 33511296, 43182086, 58400628, 70792969, 8219055, 92930151, 133714173, 125201435, 70102110, 66944368 >>,
       << 59448514, 82616532, 84422390, 123364699, 101631460, 129648262, 123629411, 33397067, 38168100, 65396484, 19457977, 39566500, 121078976, 94124473, 34975663, 12629343, 94466731, 56962588, 62245455, 52028219, 19360325, 12661870, 107473192, 72045486, 65870420, 100017638, 38954067, 32401922, 2763625, 82843766, 54636823, 38392920, 67078825, 40456082, 17513127, 80893760, 85936983, 26982938, 18798403, 52457569, 70902870, 31709861, 97894095, 40511614, 70127667, 64829669, 3245513, 81072220, 96533826, 127489438 >>,
       << 85683609, 23118748, 78343039, 113888505, 45043374, 13991925, 56455296, 90196677, 22654726, 75182161, 95235126, 79085410, 5437784, 74690545, 41898647, 46768083, 35542623, 70627181, 105981286, 20718522, 50684249, 18771119, 58797845, 63991871, 121571610, 27612959, 29963430, 13700697, 115635452, 124105969, 25131690, 45314450, 69955614, 12908675, 17533468, 89980099, 103152729, 127640212, 112928381, 75215620, 122344302, 62406500, 52794422, 131909638, 54012846, 29922635, 35695547, 942255, 34373881, 107033270 >>,
       << 13997010, 83601076, 59367715, 130826002, 116385016, 99627854, 33864434, 35062376, 123484083, 132514798, 62761740, 57086231, 45778442, 95969215, 24441709, 114055661, 103234517, 17321780, 40715093, 53812640, 113387626, 81987797, 53836662, 69262247, 107142906, 44435796, 126175453, 102346544, 15411407, 55327684, 79553297, 23887931, 8929636, 63976786, 49755406, 9683845, 61924700, 14000535, 33223828, 49870846, 92298046, 88187809, 19271346, 84420670, 74272584, 39872333, 43983693, 34970507, 86221054, 60972165 >>,
       << 3914485, 95521756, 84044402, 111938952, 43901322, 953635, 83968775, 3088190, 47573080, 108122670, 118730758, 59004940, 34871960, 91664034, 44630791, 95190707, 70671793, 128177566, 5843981, 65054815, 55832892, 56305264, 41930051, 71763739, 61690292, 69478755, 40012596, 15439239, 30312385, 73232423, 89454777, 33517546, 15964297, 23998190, 61221686, 58479698, 6236118, 66491700, 71910487, 103753655, 31524127, 26374809, 46996003, 81422869, 38406487, 72565925, 23684129, 85524284, 123119251, 117264698 >>,
       << 104868301, 17119180, 123502578, 34376042, 48628139, 17018505, 38512117, 110878498, 127972956, 107840433, 101596608, 72622819, 72041503, 15931230, 51929058, 117125295, 2075795, 89034603, 25366932, 118105966, 48934322, 108303735, 33328738, 41502325, 14479917, 65391256, 56897260, 93974848, 111363449, 47358228, 41795833, 54678147, 14311954, 108368908, 35171445, 13248153, 13851477, 86534157, 102761578, 77671828, 88018133, 14658404, 4375902, 87794901, 13397211, 39312528, 90406756, 104136272, 62072484, 116013560 >>,
       << 29848345, 76258818, 86017360, 88644937, 91336982, 119021474, 10670157, 84470661, 22739121, 111174453, 77440242, 67973864, 109972438, 87546847, 31581142, 126252507, 108045971, 42061481, 69763351, 33608239, 37813275, 75169096, 131969132, 120146620, 95298741, 1099806, 90489672, 13294541, 18074915, 61563737, 63730050, 9863117, 18181499, 119003178, 59383541, 131485908, 65744917, 93591037, 14107655, 122745851, 43176515, 51697458, 86862317, 67364118, 133626879, 45378921, 26123526, 111076350, 111910897, 80741926 >>,
       << 603273, 111812048, 79274842, 12899856, 91422220, 60517856, 37820419, 36428171, 65424885, 76493620, 122145335, 126678314, 33877615, 1880272, 122426048, 70620116, 267319, 88183509, 25809950, 3864908, 106479222, 107657939, 130300525, 117836528, 101560581, 72190341, 79873140, 98465416, 21471360, 22357229, 75990720, 85256899, 6002782, 115724367, 54003319, 35087836, 111148018, 13004728, 81204662, 82908877, 102521447, 52218930, 43727176, 74604719, 100508930, 39650049, 4420667, 20743769, 93218915, 75839065 >>,
       << 32897453, 62355344, 56476390, 33800065, 43211696, 17011816, 110250089, 55830065, 85893370, 42813547, 74503905, 60755739, 129677437, 17380593, 70421237, 1913327, 124661124, 22629148, 31944189, 73838054, 117919638, 51651493, 42982787, 56342115, 23947074, 132968386, 55573459, 5871766, 132546420, 1795630, 74413472, 1093823, 48996963, 77794526, 72980870, 3452692, 89808758, 116612179, 16122810, 115830958, 70555669, 103133601, 74049430, 68646672, 1813062, 929706, 93818679, 33209344, 6821, 62027 >>,
       << 44584415, 124519447, 26188180, 61211957, 72219803, 20639510, 73303635, 130469794, 53323778, 116134132, 70315538, 98806189, 64298658, 84507348, 21508744, 105491996, 97248735, 87999444, 113684216, 84169016, 20747919, 6860688, 121916743, 101436287, 134024988, 25586356, 1353038, 60975567, 9465118, 8242865, 132210649, 115253301, 72798796, 8391449, 120746767, 102487767, 56921978, 76652180, 99044608, 22824436, 126102643, 22320779, 27523827, 117185368, 94973009, 79231068, 62730282, 50796271, 126803683, 86911101 >>,
       << 52558020, 22459314, 15146261, 49160991, 36119868, 9273697, 46761054, 114248880, 131248272, 93525630, 9094821, 130934633, 77636397, 133162004, 75337274, 7987179, 59772630, 350093, 112526901, 104501681, 91129115, 120093786, 17030684, 60980882, 98496251, 17997388, 83168085, 89006932, 22369161, 111645083, 110252744, 93218933, 79772629, 41373090, 113935287, 110260629, 125113136, 20761330, 88879533, 74974841, 54881564, 29079617, 44578081, 72200772, 103201468, 114350022, 31905042, 41117789, 78349860, 22480649 >>,
       << 94420652, 118383444, 52404345, 26874839, 75087539, 78198725, 103529995, 120212538, 85469147, 110063231, 72559253, 65408006, 86552357, 87913781, 36148932, 82646665, 43460345, 47130211, 81739525, 11871101, 7115745, 81788943, 18897262, 103515211, 103866557, 100190075, 30829947, 126184250, 32179932, 48245443, 48753601, 113975086, 70393635, 67666154, 46766543, 61141444, 113445229, 129703036, 19932519, 119752843, 69183765, 87168906, 29670911, 35238137, 53687401, 87885047, 28930266, 86924683, 69208032, 109527196 >>,
       << 81735825, 13079004, 119116316, 58341179, 10958158, 88934278, 80513198, 3589576, 46995632, 43107981, 128852410, 122174412, 74502609, 65531771, 49080539, 27911427, 2489843, 93710882, 85395394, 20077156, 78788368, 54946194, 11582011, 36490295, 96579722, 78542409, 80725443, 89824284, 101736666, 7663699, 131628283, 105963999, 117473617, 90800034, 115196567, 110572088, 125492358, 81835402, 39950725, 8654932, 57525183, 62816071, 76007755, 43989340, 84183676, 88401294, 21048869, 87521058, 5657032, 25112442 >>,
       << 62304074, 79966719, 104790347, 123002498, 68185736, 82562530, 91567254, 98058869, 92573092, 12868627, 36888202, 44063502, 114193728, 35334047, 123767232, 72666817, 10855155, 108661886, 9533894, 75487318, 127826367, 82674873, 128634314, 16238965, 63512627, 84065177, 21707955, 68897058, 37522271, 45256485, 105119600, 69267766, 40379612, 71945281, 99143486, 64913872, 36299142, 78773027, 34556169, 5761517, 112966682, 5920541, 77351959, 116601651, 23395529, 56490660, 24675793, 74172359, 122314743, 104671152 >>,
       << 69358373, 130212430, 53396121, 46519153, 98652604, 72486439, 112781964, 2968722, 131540199, 118819134, 66202837, 88152337, 24883859, 132511860, 2873138, 111163556, 7489987, 74819349, 85595289, 88852555, 3020442, 47713436, 61314849, 107664886, 2773350, 10782189, 76483314, 121257992, 66805247, 38282197, 115972638, 28228860, 129442534, 102367016, 88261042, 89172272, 133457015, 43191297, 59909888, 43152357, 92021378, 19711133, 88261015, 121820422, 82799947, 17293639, 44315453, 46149880, 133473906, 109962033 >>,
       << 121418831, 93616803, 101922996, 50145259, 117204747, 85404439, 56595344, 67138149, 3287166, 94248032, 92284234, 73449368, 36042171, 56954946, 109783542, 80502742, 97833868, 1780093, 192755, 13950799, 45561612, 93222501, 87686025, 75447267, 14927638, 17141441, 104743149, 28328517, 51026924, 115049951, 20447435, 36668084, 94451528, 25129953, 39379107, 83305974, 86640444, 131697767, 91746825, 38311541, 105323612, 64893785, 91051155, 4988966, 626634, 18175722, 130606367, 122299669, 46298907, 15581229 >>,
       << 76793020, 92961767, 5340028, 52767226, 120295947, 87359172, 60192963, 121352617, 18653637, 41374658, 93202298, 36146861, 104837676, 57038475, 6793745, 83415436, 125997205, 48256585, 108557814, 129087259, 63490092, 92488894, 65040700, 120465734, 21385665, 112425811, 38555903, 71492166, 64317730, 65014761, 38768136, 61482271, 51853517, 32590216, 127861944, 120514860, 128453362, 7296126, 126691519, 92099808, 71326759, 28538061, 44734846, 58984551, 17720923, 89840401, 72020881, 80962635, 3974899, 126798470 >>,
       << 82942870, 12682293, 115246657, 105280795, 90505905, 7621753, 4959822, 96115566, 92716686, 111336721, 56045185, 33533745, 35840783, 86026063, 61767489, 41257796, 84228847, 103390790, 90576227, 10804760, 67765190, 1927231, 110054780, 35454492, 119370148, 104003717, 18067675, 6114971, 90993841, 20667099, 21057261, 26139675, 2068302, 42417035, 104822103, 116493471, 75654679, 63985998, 117525412, 46203689, 61295554, 33446035, 28829771, 132081959, 104308118, 110881416, 58078891, 133232009, 74526560, 103969496 >>,
       << 87574323, 100784993, 25130204, 124924706, 67276645, 113947260, 64447952, 50753938, 46200729, 128520156, 60307294, 48307599, 97665935, 47946589, 46579671, 18627052, 44541910, 68306506, 55515326, 74819507, 43456136, 126262385, 51562938, 117682291, 72558971, 48330429, 3284314, 97269981, 128377837, 57203420, 102301421, 51608757, 35886239, 132306648, 129888109, 67238242, 64015592, 70483536, 22522243, 88294136, 53802028, 41591370, 117412642, 130622252, 68471204, 63481608, 14974239, 30086794, 6034712, 6881594 >>,
       << 7214306, 23589060, 46090972, 47291703, 35056819, 54386291, 86043550, 35570284, 45710787, 113885064, 33463989, 32033579, 38347907, 59689820, 83443712, 68412821, 46858360, 18284691, 78512703, 35635516, 85286615, 84111189, 130966524, 68279733, 38407235, 38631598, 61085351, 812419, 38472787, 109824947, 15873286, 92534258, 93838288, 41791137, 49912569, 4727999, 44149676, 89437114, 100017619, 51759306, 28455259, 102696813, 26283272, 64744281, 5418627, 57364553, 80981300, 122072757, 44944588, 87075083 >>,
       << 14214231, 114454174, 8814301, 70138869, 14018769, 79260680, 52868567, 87017694, 16190146, 26551425, 71781925, 86562128, 59173136, 114823962, 117398324, 48851487, 87906587, 82790924, 46742109, 43713685, 75678396, 37501633, 21948898, 23912816, 77157269, 70395987, 126058256, 13850254, 89277799, 25629217, 33037821, 118715967, 124963123, 86931059, 20368890, 38763550, 10275301, 82677946, 89621635, 82482768, 61775670, 113701975, 129088975, 119509247, 62011023, 96475790, 11693253, 10869023, 69766688, 779628 >>,
       << 115528405, 14488073, 95808416, 93085852, 50657550, 59255321, 93568040, 105196398, 61845342, 39528740, 126276612, 109779826, 25994863, 50871034, 6925899, 111376788, 35434750, 73216296, 83714312, 130471944, 338962, 116241727, 79608199, 69762015, 44538908, 81015804, 20837358, 58853038, 13336087, 133515811, 34667599, 29977744, 91865561, 55784365, 76966061, 103301294, 36413818, 63126467, 33942798, 134058858, 81128849, 27580935, 130095483, 85344425, 41039289, 104092510, 64419444, 52403388, 93582300, 127304785 >>,
       << 69360964, 71566703, 78155382, 28485635, 96009861, 67866372, 56091188, 10938161, 52474076, 84805919, 98959915, 12171050, 94034420, 123818118, 70658160, 89295379, 64493520, 108068558, 61660432, 51418720, 41221970, 129866590, 97599721, 42465147, 70263748, 90448567, 7484446, 72432863, 39314303, 25374109, 10911160, 105953517, 82988381, 55600982, 85158390, 42690255, 21818964, 97392947, 9038759, 121492265, 93180780, 59998690, 112370780, 75750483, 98791670, 4869499, 85925328, 105780444, 3717556, 115365624 >>,
       << 43122268, 26000074, 89020133, 8695503, 18007273, 133255150, 56360847, 2662571, 49728926, 42755754, 93538044, 113534152, 65779047, 40156839, 8337172, 18782652, 121692731, 84317906, 133544374, 107347185, 71340006, 100998823, 124755981, 40532818, 124344321, 45098584, 83372196, 49305181, 72175893, 102343379, 129993392, 126491896, 59300758, 56835720, 76937043, 43083446, 50241690, 75870511, 116899357, 112739511, 12626119, 85950826, 22893516, 55802437, 69236259, 12142343, 30487371, 4663127, 66571688, 69582377 >>,
       << 32450029, 60535116, 116342653, 28146069, 14655989, 104863234, 69822273, 93271087, 92581639, 32449738, 46782055, 78050455, 123312402, 41211454, 14644917, 22957848, 98861705, 31667669, 102666293, 99800172, 132748341, 35119596, 43994182, 78249073, 96207647, 23142896, 27087920, 23681518, 108838047, 49631085, 93017776, 69300905, 7488610, 129469239, 100548431, 24310149, 38785588, 46644531, 42849647, 112299306, 67101104, 10410027, 123086146, 13639774, 102791518, 51433538, 133387831, 24043664, 108845292, 93878927 >>,
       << 62442048, 36237590, 103544022, 27871826, 44686811, 13782023, 122191936, 105133454, 37982793, 80118482, 16852397, 69031416, 110275679, 55251338, 26999473, 17958019, 66547214, 94064355, 7343069, 20650547, 27586340, 13372668, 62367209, 34418169, 85087125, 121168512, 128422624, 4469052, 17409552, 70419142, 99805678, 9967983, 5968892, 129156515, 51048256, 386349, 104847571, 84734606, 114509218, 65041311, 52059050, 31194360, 111456465, 39829218, 36748030, 27895663, 27867319, 37558814, 91230940, 55716292 >>,
       << 276462, 24354863, 87181487, 134185634, 129712789, 118993995, 100302287, 50380169, 130257897, 128865228, 27925334, 32969022, 97248938, 49209625, 53429311, 37276573, 9910171, 95341583, 54151667, 85673540, 24055603, 79513044, 108003990, 73455043, 89116503, 126514519, 66480687, 5063961, 108921790, 22958646, 44395754, 20233001, 12702081, 48316587, 96783535, 96912877, 117554960, 11830221, 36102405, 91000904, 85876373, 128389273, 97647225, 30569840, 127118759, 47110948, 114684077, 117103433, 12793547, 63732970 >>,
       << 17543121, 87190626, 26573920, 89731208, 51180807, 123881425, 68093611, 49104343, 5846101, 35331206, 98008681, 99917211, 106607027, 88463964, 41874616, 71938590, 48810133, 22746177, 52138215, 6884226, 85027005, 118597959, 100819628, 19020211, 110319788, 96961909, 133102649, 32992765, 44802082, 38561388, 87931131, 63160548, 20638007, 117741993, 22609951, 34422809, 4768954, 119666140, 42890176, 124500445, 97210653, 125198791, 48344436, 107745486, 109155224, 120337667, 31830633, 6101334, 102521317, 54439556 >>,
       << 120107386, 10315843, 129009860, 15559073, 133333570, 30291145, 82249659, 2282279, 572829, 35747821, 49066095, 88049937, 71246370, 122505970, 81109856, 18146851, 63521335, 48827147, 113500164, 85169101, 22163428, 26349780, 35964685, 6912707, 67992163, 66010256, 4799727, 100933011, 50203797, 56214403, 75485236, 106663985, 121141941, 131561456, 133229866, 89204909, 30261475, 29384839, 44891624, 49121423, 127509879, 48011023, 53934737, 32193641, 68332780, 49745741, 79197336, 74465973, 8496856, 70573810 >>,
       << 103366104, 20648117, 74698064, 34981849, 118508872, 28171713, 82211615, 75675955, 104409394, 58889362, 39874490, 71118609, 106059860, 52284317, 77825976, 75235230, 5683194, 5878135, 117337178, 46336804, 96176501, 48261020, 65542688, 95487742, 128715596, 27984488, 110812160, 115898822, 112865064, 27170879, 121794502, 70414048, 442636, 61854161, 83718025, 130673444, 98567902, 130117734, 16881045, 54499917, 84511992, 52118570, 130079, 77578524, 90435397, 38780927, 1347669, 40799789, 33805229, 61196742 >>,
       << 118712794, 122007031, 49696885, 3520028, 13769381, 61066486, 108354624, 42229719, 2082971, 44714291, 55347941, 91188555, 112578341, 52570183, 46574888, 104927285, 43384710, 69232643, 79893537, 102720718, 82133938, 85071652, 129708271, 100341329, 5222708, 86641001, 53381646, 43362354, 71794055, 125267048, 53271647, 116436119, 79289109, 66684343, 116144803, 105914420, 100492353, 95529673, 95639998, 17860289, 21985532, 27106023, 22715024, 38852436, 24384883, 5654709, 33830580, 32243271, 2435122, 8221972 >>,
       << 53592654, 32088564, 92637145, 8599853, 77061619, 14098015, 116420931, 4990013, 110946520, 57658058, 114430887, 75659071, 62992702, 112491619, 113521817, 13519765, 99185318, 113782256, 33050997, 51244531, 101844436, 32504817, 45618085, 79421354, 10540657, 102243596, 90148067, 106967480, 107765345, 12201828, 113431643, 40429312, 131807810, 96467718, 19727981, 111851565, 6631950, 130984786, 112251368, 20667686, 73495888, 53404642, 14604332, 17928326, 109485140, 19382923, 29031010, 21168173, 74326116, 55184637 >>,
       << 91177580, 114923802, 122967615, 130439812, 102039626, 16188579, 36180940, 265598, 96069322, 103544187, 17663256, 85364563, 38596288, 124808079, 44276449, 39989709, 18302557, 19547822, 35064084, 99085363, 79808601, 20964740, 22925660, 38553201, 32193192, 3001017, 19953274, 31063448, 92790968, 17649760, 103884208, 94282432, 7479376, 2023451, 3654663, 12953274, 25592828, 17369493, 60074543, 70655758, 125929142, 81014231, 22991438, 73091377, 88488943, 90204894, 21624590, 35535110, 88891434, 31647872 >>,
       << 44682532, 8237196, 85992451, 78658520, 112229515, 65539521, 76124869, 12869161, 95851104, 125093833, 31317714, 45050260, 30904085, 101862200, 21716308, 81089799, 43313955, 130617658, 51087617, 15646323, 85391715, 126296340, 65054513, 133871640, 55142594, 24668332, 78971457, 37671930, 120027053, 98853301, 93460231, 69718807, 36882553, 54747242, 98683951, 65524073, 107353471, 50445832, 38369722, 7516806, 120743915, 103028704, 72122671, 101148843, 129723087, 120560468, 115484166, 80004656, 116527894, 60976042 >>,
       << 61521649, 77849177, 125351347, 48707760, 28928065, 50461027, 9276427, 121481143, 36919408, 466556, 74064979, 25396571, 35826, 86159550, 62402659, 5334252, 80183659, 7214711, 52628267, 33015392, 120275584, 124807731, 31874283, 50562200, 7348413, 17295330, 65116322, 127294020, 25191117, 122124325, 16372005, 96814060, 130139210, 44876883, 56783754, 63066631, 112677691, 97178160, 21993730, 56558922, 9242243, 65751000, 100111236, 125160789, 122695115, 104786330, 26549185, 57622578, 25101260, 78879758 >>,
       << 19539434, 39121639, 43117599, 108938100, 80291419, 89726004, 73177071, 76797895, 63175435, 94985012, 60461447, 116092678, 61053371, 26237211, 72999864, 97479929, 99488171, 24468537, 92772529, 40362608, 26071114, 127016211, 67437735, 20964776, 8593677, 37495499, 58005773, 22303841, 79726391, 21472009, 22247105, 24974322, 133091705, 21557315, 126989200, 71145942, 114641329, 29942286, 26413154, 70067538, 96733464, 105544541, 11101754, 26420551, 67122647, 126005034, 124527407, 43678681, 23703086, 96887827 >>,
       << 21923013, 29188411, 45345640, 80716870, 133464954, 3751110, 51644555, 19400890, 65141955, 91487294, 3678434, 103537022, 77967438, 115668501, 94674750, 39093360, 123395868, 132443332, 109816695, 114283893, 5686390, 117768948, 96515082, 92266516, 12870839, 134039369, 37299166, 40170607, 9987171, 23054582, 41808750, 45418453, 124076509, 21528854, 24900734, 79223752, 132519573, 20783091, 33774551, 108846866, 49617744, 52059096, 59428285, 90644070, 3527613, 70115618, 89300729, 110614774, 86573553, 76141678 >>,
       << 29597166, 77213048, 94788881, 30426403, 121474489, 117371131, 93595279, 86451431, 46768533, 4644682, 37519480, 55698096, 121987483, 20973952, 93165598, 129576747, 82357034, 92820599, 25390191, 26389336, 86264811, 128104833, 61616763, 37357443, 15158140, 47300289, 123902396, 26407444, 115302131, 45903269, 74197806, 109924224, 109046325, 97630989, 118761062, 124712651, 115942058, 31445855, 27812984, 96056895, 70100281, 59965768, 68244930, 86427169, 126604045, 78183243, 49017793, 105731865, 83770437, 10695343 >>,
       << 98162148, 121553752, 108263951, 124315893, 81793575, 2903358, 45680391, 32522192, 102333572, 4331117, 77753104, 85766163, 99936018, 35965951, 45671297, 75348869, 64722232, 48507425, 76555437, 46381062, 7945140, 68285537, 93860319, 133049974, 24852490, 46353923, 108531344, 122021019, 64021834, 17328917, 30198320, 24414740, 99463079, 93703131, 91389765, 25647441, 1880225, 762007, 64700172, 601091, 75102704, 56555424, 117303140, 119249956, 9400436, 74833535, 58482913, 80933880, 109171029, 40735176 >>,
       << 67505520, 110837469, 39993799, 52857040, 91438691, 61254392, 38269316, 62596250, 96515367, 84571454, 101096835, 46987143, 22573760, 99744515, 83184327, 13149859, 36088086, 73512697, 33502426, 99313931, 49222062, 128062446, 86747839, 51113289, 116694127, 48728782, 5548532, 74624890, 85634270, 103496295, 51135550, 76688810, 18304425, 89197318, 112525493, 18709858, 61481712, 113339138, 125992144, 116033948, 125516614, 88662694, 90698, 100163988, 23181077, 44686408, 109892315, 17473481, 90930827, 91693714 >>,
       << 49524021, 107756540, 107610977, 85247049, 89656256, 94863798, 35457865, 119763899, 84006924, 13865154, 106834858, 14840597, 100125803, 89650080, 8334916, 119743488, 100721599, 117339502, 49386293, 47658917, 99168691, 55093650, 23882612, 87690310, 40705750, 131326232, 9624327, 19170948, 56750039, 88545274, 54781914, 59820526, 56489677, 120305486, 86550707, 68102118, 3512511, 105488656, 86887596, 125304987, 76451003, 111052294, 35609056, 127461842, 6624222, 99182671, 42020300, 76292602, 53995301, 40562898 >>,
       << 64944305, 4751655, 33333667, 26894409, 56948020, 110259130, 35787343, 22887525, 112926436, 38797143, 113063632, 102767307, 43608572, 101969096, 26656301, 131320355, 95985568, 20922226, 3149034, 57737174, 42972160, 36326600, 114131497, 97505021, 98314933, 30188396, 18821669, 131307534, 54757591, 85083531, 9013046, 39585077, 132680227, 29615919, 40046751, 116564951, 7872866, 93346897, 89355614, 121558808, 120086984, 112893507, 102869895, 133530634, 111718183, 27884166, 64217225, 9555731, 46335986, 20046375 >>,
       << 119404152, 112995213, 95463737, 35767883, 25509985, 106687120, 16074284, 5772790, 81697883, 8718590, 44982975, 90707323, 113187416, 125611674, 55198638, 71604686, 33213304, 87314737, 122185186, 4048367, 83093667, 122632682, 119890513, 98939433, 49010465, 32315629, 97523475, 129931635, 127264505, 10472982, 100319722, 132545952, 25009476, 21949003, 133063029, 48781560, 21935625, 99002699, 115415132, 103526556, 53935610, 36995136, 78713694, 59621640, 37812528, 58791043, 73688700, 62215600, 8286381, 58366703 >>,
       << 58829924, 87312082, 84029541, 89655356, 51182036, 38986459, 37823913, 21921204, 67949458, 55509402, 84188783, 125690635, 116649004, 31240034, 4967907, 62636757, 131891004, 88455590, 98925428, 4014624, 61767391, 70357030, 10647687, 98588423, 5340945, 98212055, 9285918, 98403407, 4920696, 14648063, 18147169, 39503706, 134156328, 112650235, 130181867, 38922276, 70291351, 103531800, 1243979, 49918190, 52576952, 81336105, 85922126, 39904419, 126492780, 17293185, 14064014, 15095530, 99172253, 68352687 >>,
       << 64742125, 41257244, 96161340, 78706896, 87632321, 2650444, 3425044, 37509231, 34383498, 78406318, 9338435, 110947869, 7334310, 88301036, 130049592, 104592213, 97052435, 8285235, 58964701, 22756414, 93768799, 25815774, 92303349, 9581319, 98242729, 112736672, 108126123, 39384624, 123146837, 76506195, 23218091, 134109341, 4129472, 38014388, 76294739, 80658068, 27917435, 2184565, 95689356, 128529274, 55599477, 38810829, 7596509, 119208995, 35554295, 11488839, 17460621, 9849505, 7918347, 61528144 >>,
       << 5382251, 90092990, 113737256, 36842387, 91946920, 129891140, 27775592, 10071683, 3922049, 107470117, 46709905, 49723427, 105474484, 1252633, 29128850, 11833256, 48913280, 97702455, 70087663, 68929391, 61164275, 73770660, 42479563, 5220638, 51947290, 55734747, 2069533, 103450525, 57801244, 59709736, 129743721, 108697245, 48012833, 86903608, 15537370, 35872862, 15571365, 35551455, 70113533, 30594151, 46380698, 125793342, 9660147, 44577907, 54108227, 2821198, 76075641, 47134648, 16165252, 35679752 >>,
       << 96553134, 17661725, 125001261, 61448565, 63636515, 6945825, 91979334, 20948916, 8729541, 46004651, 104480055, 30914918, 72461876, 52114253, 15416017, 14054951, 129468417, 44956755, 16396664, 15768140, 10639799, 121764354, 95207726, 58307680, 23376158, 116101006, 97295482, 63200787, 113557506, 12913748, 34367066, 27891262, 100851838, 49631688, 82723328, 25878261, 35332100, 15013901, 4799813, 52732347, 14098028, 86859938, 115025583, 56621300, 129316774, 43703517, 1398217, 84799304, 34192648, 128013815 >>,
       << 93618475, 117207732, 66962229, 25068505, 127110608, 42627143, 46675957, 28917335, 16305618, 113998954, 93786716, 4836308, 66676382, 26852708, 67009918, 120351551, 9983348, 25084301, 19545541, 925601, 58882871, 19465805, 43205720, 98470508, 4273658, 73248020, 86966499, 132667944, 41095092, 43067903, 109210871, 97255284, 100343198, 23729599, 40351368, 124340010, 2684464, 73657831, 69465787, 58647203, 96530803, 106188940, 4628146, 99279429, 81833854, 57514147, 90496747, 79588557, 17224009, 42627683 >>,
       << 102777411, 126870187, 30901748, 109060799, 31512912, 54694997, 5231291, 13305600, 90214834, 2004468, 123850172, 124913516, 78157656, 98701469, 87897588, 82288982, 77187597, 31883690, 104977002, 9982037, 111823592, 116963718, 79293279, 131949615, 13205315, 126690636, 103755988, 94647667, 112384711, 36089816, 103695649, 7908324, 3454802, 108895864, 79870500, 82028106, 91671692, 67789197, 15336218, 22111144, 112023139, 96482320, 115619371, 83796495, 60622139, 126365036, 94931175, 14844015, 133404433, 106211234 >>,
       << 78816856, 18215676, 88820686, 94060515, 113455008, 106361361, 86286879, 24794263, 69303061, 69898877, 60057648, 115107846, 120612047, 41057715, 98379149, 10317859, 45020780, 95291666, 79343747, 115905353, 121313222, 34479846, 83566964, 20135748, 107444240, 47773723, 35525886, 85352109, 25731971, 39977178, 94984962, 44396042, 110169710, 5899176, 19951355, 54381639, 57226784, 34976988, 86540274, 23315162, 64317612, 32594630, 71477159, 125741232, 95272056, 58182481, 83933251, 79888738, 114653178, 52843444 >>,
       << 112722335, 58699523, 120022247, 37374400, 73645906, 8395571, 117940692, 11141520, 5036602, 44865589, 9404642, 127801379, 102802360, 22959320, 75903655, 85972214, 97923926, 18209374, 93796566, 117838819, 62857819, 19919731, 109950272, 36385044, 25370604, 2581019, 98774537, 57185737, 66130294, 63182488, 66798361, 82883552, 69344227, 31350513, 89016110, 51729362, 61138426, 61575310, 68128753, 8945519, 1553222, 66192059, 408648, 68542384, 92766703, 119556790, 18086162, 33748247, 128934670, 7222015 >>,
       << 67554064, 81829802, 106351594, 29942164, 84967012, 48118466, 11172882, 96080885, 93229701, 115593403, 118971958, 29391250, 25634966, 99642925, 102270319, 13030849, 133327227, 47709705, 60989234, 77354147, 23946424, 7350085, 75420555, 24198212, 90171949, 33413144, 106227040, 58018636, 51720072, 11260418, 111216666, 95358652, 51992603, 86292873, 22008434, 2167821, 11052201, 59890186, 110899521, 130807957, 123084361, 20270838, 79138861, 108923527, 129810202, 43673369, 98448474, 15721603, 91161893, 18847373 >>,
       << 51184741, 86491465, 113099320, 117288609, 53844312, 7777349, 118328211, 91533582, 75464293, 122974110, 115892610, 56166745, 127655177, 78709104, 56810333, 104137501, 14811571, 131204797, 11735402, 114199938, 129421693, 2671076, 74447462, 36355354, 220861, 90383309, 32127507, 83857201, 3619300, 99627706, 76233824, 24230234, 88354057, 87939633, 90141883, 126983721, 134138512, 64093913, 52489904, 120552424, 64881814, 29038461, 101657826, 55296219, 2770043, 103955115, 70951775, 56025173, 30672305, 119183464 >>,
       << 107951205, 27753977, 29332479, 109551833, 78277785, 79930322, 86996056, 130214604, 46497879, 5911448, 52496358, 52484975, 94248927, 54278008, 86270804, 133865099, 66199740, 57473172, 1152572, 106306461, 96100724, 45683490, 47542719, 2657546, 70615430, 86649829, 3557985, 87054350, 4955048, 45601680, 111599129, 123676002, 6532056, 91103866, 81660317, 7159049, 73604835, 29274654, 5778222, 55846585, 83984529, 83469751, 25074394, 48413288, 6436552, 92857346, 95254491, 79260909, 102224673, 67780821 >>,
       << 111327069, 4785140, 47175479, 132008334, 131009486, 129301674, 49763890, 119606763, 57858606, 124571055, 39593469, 41826187, 107372176, 10446456, 78522562, 77029372, 100503374, 38644302, 103996780, 9063649, 113309730, 17019390, 35064286, 28344438, 56073498, 8835872, 52672150, 6465569, 49902413, 1724900, 93840505, 24167042, 80024065, 85321466, 100876898, 127846135, 78432467, 81875553, 130013192, 5678594, 59085048, 53543254, 12376516, 78015533, 15790813, 102317145, 84603878, 67746845, 14704705, 99586247 >>,
       << 120561815, 120811464, 41673970, 82047147, 117758106, 72021245, 28252076, 55439603, 66211719, 70045125, 35370039, 81861299, 1925683, 31810973, 17976074, 112418797, 126900762, 12572732, 60387062, 59384309, 37457917, 75630553, 111873666, 128266611, 93353438, 12559504, 130739241, 15958464, 102921459, 64187895, 58445577, 58906312, 44673083, 49841715, 3126014, 130062960, 93026309, 133791897, 89641572, 106060360, 5455222, 37457027, 25269861, 110827327, 66264189, 45498560, 86125623, 116876594, 26719522, 99027253 >>,
       << 117372211, 14121842, 44614565, 109860546, 59830937, 47568885, 86520011, 126118300, 89230719, 115383528, 17753316, 119874305, 23805265, 83321634, 43250595, 7038002, 96125148, 72260168, 33257773, 110493750, 75020711, 52836483, 4802102, 121761310, 26552405, 127081115, 78280734, 7903797, 28576106, 56975494, 66532017, 39075808, 74519756, 57626003, 59338176, 114128639, 48327557, 118445721, 53101260, 63348300, 127710377, 49287907, 114544796, 27296988, 103618994, 106663920, 43619520, 126500095, 10067789, 119266666 >>,
       << 42342760, 33330688, 34723625, 88770562, 93780822, 131664794, 131353423, 66277024, 38178852, 27103863, 80323506, 125370536, 18338116, 66634925, 139463, 69540945, 14046374, 22921742, 7612978, 61497734, 73241340, 6008239, 102348122, 110925487, 95993434, 3458795, 27848623, 66112895, 72447153, 11945043, 114923514, 286137, 15525807, 410603, 33430688, 85095735, 19234317, 107669898, 116156984, 741133, 67481727, 20431402, 113692560, 32122771, 34505080, 121685150, 12997235, 109084376, 103137642, 54360142 >>,
       << 1292395, 80165468, 91987448, 82479197, 3300097, 77417180, 62282149, 46640159, 65641258, 94528737, 69827495, 71775428, 108265321, 106948315, 47452284, 15270051, 119000739, 53760792, 53497293, 11323629, 75498391, 2479847, 66932055, 118118297, 53182758, 34994717, 41933645, 35683289, 120231645, 80426416, 6439248, 37674444, 29982233, 105236996, 79185858, 38779473, 99972910, 90112932, 94770042, 119709617, 119043407, 53509768, 96304160, 10051864, 58273344, 128662508, 86819537, 18966333, 16795720, 92538110 >>,
       << 22669627, 132230062, 62577425, 92585785, 112751545, 118319085, 59580659, 17748100, 57918629, 14046530, 2503718, 45698083, 36046502, 104759963, 86997420, 106247952, 115052022, 127037746, 5047004, 22732891, 97196471, 51212783, 2594079, 100081618, 113993672, 24169934, 70225784, 87199914, 40570534, 114276412, 106730228, 55333846, 47741329, 96775112, 44438382, 78480462, 19074315, 121176821, 12216415, 94930941, 71189250, 78886725, 42555576, 51413427, 72602318, 68067523, 108488385, 53782253, 121228926, 33577982 >>,
       << 117245254, 131256828, 83854031, 77327028, 120482100, 29154496, 114059660, 25766487, 89748096, 78516139, 60369630, 131430071, 36833176, 47281846, 25527270, 117685318, 81401629, 129303936, 8508179, 71436260, 5724369, 23652565, 31310102, 72624617, 39464849, 74686557, 59175880, 55112422, 11308994, 105346880, 85765013, 40765749, 40756686, 34227765, 30045657, 98236354, 96113418, 113712559, 30144463, 89875616, 90711276, 103112925, 59212474, 121332445, 31118001, 50699756, 103500251, 86450350, 86698385, 4965459 >>,
       << 83279478, 130078389, 113507587, 8313080, 68731610, 44196320, 58835232, 45560291, 29893558, 104409850, 99074078, 62793043, 80913186, 41065295, 59429890, 52659723, 101167114, 29000942, 14050955, 70951170, 96009499, 29234918, 87768277, 34215768, 24121821, 95359074, 76829711, 2152527, 1748667, 21266515, 38320618, 125156110, 79676862, 22272100, 86205440, 65391137, 72104404, 125739680, 106860353, 45888007, 21081555, 113675584, 27200904, 39648294, 53619269, 97233404, 127574916, 88380048, 10525577, 42593286 >>,
       << 9313663, 105963930, 131063736, 120459188, 128830557, 21427735, 14946716, 101400691, 109287548, 57243697, 66026971, 54122217, 98670028, 607908, 110139877, 70201375, 125007626, 81675816, 54881400, 5935734, 11894985, 2648342, 50746971, 126893010, 119743700, 57337518, 117266587, 42592996, 67870478, 118864777, 83440810, 59831485, 67382299, 90955806, 21483579, 94714881, 41665692, 17372424, 98656415, 49596091, 113753748, 56578701, 48389938, 74137090, 17555113, 101396248, 77394574, 29330970, 74731348, 109788246 >>,
       << 44244154, 33627309, 94280737, 85713837, 123017410, 5570747, 84282500, 88453477, 40338231, 96891643, 39537855, 84021213, 45197604, 2384055, 92532186, 31213952, 118282378, 77076044, 73891526, 53606786, 25989726, 70733475, 118592146, 121488955, 26640629, 100193959, 34059241, 50601524, 131545427, 127301772, 132891273, 52352009, 80889429, 101400203, 3041855, 70219375, 16079756, 134077258, 34559702, 39488658, 81491568, 71277357, 52519713, 133738885, 5845034, 18447687, 81204508, 95447316, 54281244, 106522674 >>,
       << 44391342, 132635849, 30216279, 24603223, 92252084, 74610694, 95250958, 119754073, 29921599, 116204053, 10298313, 46245164, 88959047, 125569114, 27031885, 2974200, 64340200, 2235323, 62585136, 119726116, 80654618, 107093363, 132946430, 14012952, 82942354, 5697196, 106827748, 39122760, 94685893, 70713683, 93418653, 66597532, 69308132, 57019774, 126676435, 3070188, 10160648, 48172545, 8336917, 69204668, 95400201, 102696365, 85533714, 107604347, 30318829, 122410293, 129036542, 32044196, 124809553, 133714019 >>,
       << 37198678, 108631949, 42779053, 9454208, 24071754, 81359965, 70841928, 19994094, 80919572, 133114995, 86650153, 99840201, 33751787, 46581929, 36691670, 101142760, 11671828, 68176194, 28015977, 26749817, 104520659, 66595315, 75171040, 69910818, 14502298, 40845062, 87322640, 65961739, 101034141, 121625019, 95090835, 41280790, 19422049, 118587665, 46984008, 3172250, 61452419, 107746192, 122792980, 41407755, 29846473, 70646997, 113301245, 17834596, 6150359, 110163255, 26843462, 79837128, 47720580, 110873357 >>,
       << 90371113, 7995360, 87290519, 95427256, 107713871, 7449413, 59496506, 68231207, 57418757, 60027232, 59922848, 116388719, 44686784, 44835278, 78719, 4639433, 104327625, 43063783, 25516166, 130432842, 100650345, 42773072, 64983128, 106760425, 121842254, 114124628, 85500978, 84864485, 119819936, 109846767, 51511246, 95694506, 8005966, 87551607, 29520679, 52675190, 115243153, 60712191, 28048609, 29162415, 133873374, 52217558, 9121727, 36121142, 24261684, 130472725, 33984484, 63318928, 37693817, 11346096 >>,
       << 133559069, 47820213, 102606886, 111163022, 12502794, 111531581, 58324003, 98594229, 30050601, 20109992, 82653885, 42411254, 58617724, 55800118, 95131241, 8642288, 86069088, 36943803, 68223485, 118241687, 103259508, 106658819, 106763123, 92678116, 20973451, 128948274, 93878837, 35490770, 87588190, 32491032, 55911814, 40498040, 73239538, 45905492, 10092311, 59540981, 70799102, 21738326, 93333277, 60344473, 91427745, 48544559, 99935849, 66498913, 63628928, 27241646, 8076309, 102337350, 51918559, 9169109 >>,
       << 34954629, 116823800, 122461921, 52481157, 3957100, 10740878, 66115765, 89885465, 34214276, 102795964, 11538938, 79922138, 50714565, 41147664, 3442814, 120548222, 97401553, 8079346, 8241249, 110757398, 97765504, 78943068, 20815054, 43943396, 55340518, 90812100, 68552147, 106041545, 27146361, 121457003, 113949538, 90846436, 44298648, 124449028, 80599108, 87882469, 123590842, 57260887, 111264418, 16965667, 59875752, 69831617, 33474735, 84003009, 108336267, 129415939, 74740530, 63601487, 64099554, 64228674 >>,
       << 51328279, 44088419, 34991603, 19807, 17994059, 30119992, 39951434, 126016900, 133872410, 63229793, 102261388, 16295077, 37999725, 46244761, 15365187, 118909945, 25939489, 60626673, 36580536, 88408094, 117852994, 873670, 104630162, 17141715, 71363893, 86904926, 104936197, 21928191, 56123259, 109850492, 47791926, 107056795, 109125095, 86552780, 103550234, 57920434, 129400838, 45880257, 24271843, 76513519, 29897228, 122552407, 89607456, 50523107, 64247077, 48579440, 52142685, 23990814, 60971798, 49638381 >>,
       << 102225924, 33799089, 45774890, 90490882, 110721698, 34689628, 1862406, 31455919, 104566520, 40929849, 78402772, 85079958, 130009650, 68473471, 101466717, 132511175, 130242002, 76828416, 33125161, 81209297, 60255839, 48485987, 83238446, 48054090, 44189192, 31791152, 53594514, 88141123, 40050393, 84339738, 126044139, 22751305, 24320647, 92051775, 6589366, 114895472, 77629064, 35165540, 58791956, 4513262, 44519142, 34499216, 118841718, 34892124, 66421101, 116179492, 53381021, 48056785, 67689649, 117617546 >>,
       << 95120626, 93724440, 26962630, 81917640, 88794161, 131323342, 102970092, 95015326, 114641855, 129760761, 1499402, 9135154, 126817833, 75456541, 97785027, 87920427, 62881430, 51685932, 103684893, 92775837, 117279230, 81427314, 22062357, 112047796, 59898026, 8380124, 36582326, 115108542, 32211812, 68644652, 72500891, 44447728, 121426830, 96998388, 19695746, 116252599, 116849655, 69721662, 60497813, 8425871, 114258064, 117576672, 47403658, 103255053, 92558154, 69485303, 31318832, 36429290, 87434553, 130513732 >>,
       << 87054228, 104453579, 35770838, 30160087, 3308817, 17643426, 110457082, 78249308, 83198217, 92498496, 88886109, 62565379, 120606555, 96208117, 32220546, 73700965, 42670498, 41705731, 36281304, 117151886, 113716017, 23721556, 107793633, 37621150, 8145393, 20916142, 82582915, 120393170, 133607969, 103266286, 34833949, 110076039, 119135370, 71889391, 102629839, 994343, 40472455, 93802042, 56950100, 69197520, 70485498, 51705455, 94302370, 97175220, 119437478, 84266849, 83228243, 95461751, 128543955, 74889410 >>,
       << 85398838, 83458233, 6276257, 72378625, 95586538, 60583091, 53763410, 26758061, 119236106, 120413807, 112837463, 34217671, 125909011, 88203852, 23367162, 65449910, 22220788, 41250768, 58947927, 108074248, 62458202, 13904902, 14956315, 47104081, 59784727, 73802396, 61217223, 25974997, 64481598, 104964780, 126548272, 72077175, 11418875, 45818885, 119352413, 54577819, 16454275, 112594771, 118546134, 54177944, 21053363, 8721159, 99395533, 65604079, 28404184, 50745821, 125145591, 63580889, 113379635, 11516323 >>,
       << 31480353, 99596612, 70805306, 96971742, 66470782, 26506446, 8463301, 39159857, 2691403, 93777705, 85873564, 131715714, 28923996, 121574949, 10115832, 76392065, 92722841, 113209939, 15752819, 53392039, 57064276, 55752880, 116384678, 103989183, 96412079, 16144778, 56934872, 22765482, 41703431, 100224706, 90507026, 88718130, 53299716, 82856483, 97224699, 73221181, 70158427, 97036751, 77468115, 86308601, 98286155, 57925782, 64359903, 118097046, 123820369, 52786045, 23124737, 125589191, 98858142, 10200097 >>,
       << 67405271, 18604744, 24180247, 41878669, 62336444, 76436707, 130681865, 84445788, 84556647, 24340108, 16905895, 34578963, 66308283, 54333873, 87543978, 130880864, 119423154, 124606989, 74094574, 56855679, 59050468, 5692875, 132459710, 92200450, 61182555, 13757322, 52670111, 113025150, 59474886, 12348335, 85612814, 35926077, 69633880, 89333958, 76609022, 48225405, 61774245, 81830476, 18917059, 44826370, 61217276, 72044961, 49741426, 92859343, 23157090, 25807571, 128393291, 42338730, 133759760, 20311740 >>,
       << 80215956, 67478680, 7403555, 131679158, 133891474, 3475271, 105380726, 83245732, 25381645, 39233740, 101799478, 9419658, 29890940, 104329414, 59253990, 32101779, 33706716, 45784113, 36156385, 17257253, 133630823, 38379798, 64200694, 111710120, 117034220, 109828706, 101483961, 12869456, 129395363, 8789413, 46420767, 117548863, 42236825, 69510565, 133126885, 24922959, 115090975, 24257479, 127323191, 8887130, 74809148, 15203340, 110951463, 75939035, 44727687, 11307189, 59675299, 12358622, 104983468, 81022002 >>,
       << 129915900, 258482, 60525062, 110439211, 3490983, 58355828, 61231545, 63371388, 87665531, 57369773, 130881521, 89586110, 81298573, 26497101, 110958831, 116836414, 15699326, 28122970, 13044782, 106481758, 113788855, 52505473, 121029957, 115911165, 39961442, 41971760, 32720763, 74294434, 26366096, 25925975, 53720332, 119414747, 39726725, 21656336, 46812495, 43270968, 132569459, 1089461, 114789672, 29917631, 128982875, 48418292, 32860147, 32624788, 93196110, 123246512, 99016407, 100307446, 97232463, 129733930 >>,
       << 23465831, 109434482, 98350818, 11884443, 4437803, 13452969, 21541444, 45271493, 127230789, 40253247, 93698443, 54156562, 60552806, 43957064, 103249181, 114866634, 79962075, 9262374, 39222974, 77755522, 79022412, 89727987, 81242422, 48072141, 113960902, 76617006, 102403276, 114409925, 101545822, 60264249, 63246883, 5674493, 31201950, 12789969, 94339211, 108004802, 64436431, 250028, 48368776, 57525093, 71519129, 88308145, 97381834, 16904243, 49619066, 74069218, 26330391, 25046429, 5518058, 8989065 >>,
       << 120657828, 35668798, 107590563, 123852276, 29045149, 44258452, 41153335, 49780795, 52123773, 107992679, 122733673, 115995320, 25900578, 105441788, 53157055, 117412421, 63193594, 82688574, 68490295, 69204985, 92135027, 107847023, 131972930, 130565501, 30930568, 58646016, 67183002, 58194257, 31577782, 56285103, 84920415, 114315940, 111722806, 40305575, 131932036, 89799364, 41862710, 96550356, 41530698, 120494904, 77785641, 68150266, 117622769, 15713022, 4074591, 88811512, 54197839, 124938074, 128128286, 26036551 >>,
       << 100876859, 17755389, 105224666, 55366215, 115351450, 60192727, 102187706, 25888722, 75770896, 18739040, 85061720, 3640069, 50601040, 110150610, 95254362, 105267986, 3089513, 36876840, 18871540, 116440376, 133177531, 77922039, 39530770, 19706049, 82676824, 81849579, 115934629, 18808861, 101515233, 10250078, 12023212, 82437241, 111334654, 23477341, 35749728, 59981701, 35251517, 128447488, 28518387, 86207549, 102168218, 106249730, 84650461, 45794858, 6728912, 57829936, 80805937, 89080509, 64869406, 72678238 >>,
       << 120750758, 22747779, 8019970, 77289464, 77715614, 99034125, 27789487, 67463128, 64442079, 18037538, 117420699, 15927183, 12670073, 18576332, 124963656, 2485811, 28928017, 68665997, 20270117, 97079083, 79462991, 82569236, 67817485, 25765730, 78856030, 101563168, 110145100, 130451237, 79968674, 118154089, 111952533, 123045903, 5494642, 14073320, 49537204, 119288814, 346126, 104824821, 89452416, 127591480, 104731174, 90941409, 131062547, 49331962, 83440297, 46892525, 126195940, 40005833, 65776241, 132105215 >>,
       << 57151463, 10552942, 58327873, 75002357, 132555525, 100929170, 8175303, 97054002, 84297800, 131138171, 52109759, 68834628, 4622056, 127509623, 31874570, 5116634, 41655596, 97629101, 129778093, 114746160, 4134415, 823039, 116022110, 130516089, 43853017, 91557030, 131929596, 93547602, 36250943, 116792416, 56375305, 69901984, 2274342, 10636033, 107891475, 94051426, 103185332, 26919663, 15905529, 110073016, 116659466, 121162421, 36803500, 28349941, 123165401, 32245691, 55873121, 130483, 122905503, 48013215 >>,
       << 66249931, 35163702, 26310671, 24932958, 13738026, 98699308, 118428457, 14458364, 16068122, 122140876, 132305482, 46175274, 35710565, 77083473, 44610381, 83141148, 84739447, 99205939, 87997063, 86788479, 83659891, 17455384, 77567826, 11006096, 101814554, 91723900, 63616007, 79891077, 98704629, 130021986, 14463721, 80036039, 50858769, 113071811, 133035515, 133259266, 118806674, 83423606, 107283597, 88308296, 6334028, 80834986, 116002224, 8920135, 31533557, 50905490, 39297826, 8826662, 65780775, 86361350 >>,
       << 55874490, 42546260, 128079053, 93866483, 76367587, 17291597, 2425149, 121972811, 112867250, 110956218, 49475037, 131301202, 77033634, 40618180, 72750471, 85158315, 27378385, 105518786, 53407849, 3363322, 120935828, 76506951, 132885742, 3663554, 119434115, 117859856, 132479649, 10002911, 56444667, 110662310, 69772205, 1824308, 14416958, 101511865, 11023370, 45678006, 119970051, 131821466, 110620095, 88803269, 29083508, 132879436, 99575370, 55881973, 2421892, 83760951, 51673999, 39190153, 28214189, 81666915 >>,
       << 40182747, 48844345, 84780901, 113364393, 131942335, 26254376, 87942432, 35802881, 120106007, 81572233, 66156093, 27860106, 16924684, 7894876, 400313, 114118916, 78301374, 55573272, 4479122, 126959332, 15641562, 49877159, 26366721, 44931923, 27039652, 107923713, 84652269, 132132861, 130804617, 106169740, 3888983, 48158913, 29586808, 24033956, 106620835, 103492275, 46155870, 129551219, 57988491, 99994734, 23191356, 124428757, 41374539, 90886737, 132694827, 133889711, 75241371, 73388864, 99602291, 115220395 >>,
       << 75380078, 86820500, 129685373, 92400201, 110079887, 130050183, 72410540, 2340699, 115984679, 107301733, 40323229, 133457616, 79985585, 66498917, 5799797, 35531275, 55271020, 37081040, 74003335, 118577593, 94084691, 44353813, 43312532, 47818717, 131745364, 132976740, 13055114, 91691459, 54294032, 76527022, 98276845, 28228469, 21875264, 96300086, 37958734, 4239876, 113198301, 44695066, 119757143, 102646062, 85714691, 119807217, 60460703, 101565111, 106411888, 90223440, 127964570, 104921040, 38816607, 13387199 >>,
       << 10811481, 122360936, 85925572, 75933165, 27494724, 49607563, 26712789, 76075474, 13172773, 84123242, 197309, 31466792, 68866174, 86429058, 104166949, 77733590, 9877566, 93095032, 53210593, 109296618, 103236148, 53737727, 66788593, 59137470, 92237327, 3564169, 83814972, 116417379, 91013807, 132066725, 48354708, 20827043, 9731485, 131840431, 68096778, 122657553, 111729696, 44596393, 90791757, 67684507, 114151459, 131020512, 50832503, 71221755, 117483616, 96119361, 5750213, 35052440, 93286636, 133615713 >>,
       << 25385311, 81350322, 34954180, 19381560, 79177059, 1880394, 4390230, 133763783, 106421414, 69092209, 90851584, 88626039, 71281539, 78781881, 132485034, 19183476, 43830447, 103839341, 122358744, 105726786, 72454714, 111191386, 85151238, 43547939, 64970584, 68977411, 106135029, 26829597, 81703526, 95972986, 109909948, 128924115, 73058802, 6051282, 25733346, 64190701, 3181912, 28770060, 60692607, 63282654, 27669016, 100867746, 11079421, 20589584, 6944806, 49421885, 129810356, 74058308, 106046904, 74486589 >>,
       << 54964040, 76084203, 86229367, 92311913, 41052630, 69707569, 47617121, 27548485, 92865912, 8261095, 61325816, 33824068, 69860579, 61572948, 127152371, 73983072, 10420929, 107881695, 25349271, 34406034, 130869613, 3009458, 97013395, 79527554, 46852049, 92792959, 87755635, 15782959, 124044077, 36748838, 1913628, 42871839, 7689856, 99807514, 9649812, 74296539, 13552921, 32581919, 95350536, 113346708, 95225437, 51846838, 10061655, 66339333, 117929188, 4493816, 316106, 4993441, 129968570, 37064199 >>,
       << 69082595, 110025148, 48025083, 40858588, 97731423, 88203816, 14650667, 97137943, 114129481, 103476449, 129586349, 99458536, 18141430, 91538986, 25810547, 89314023, 33666789, 67959317, 124183789, 13895700, 1126501, 117398460, 97326054, 78203965, 38174569, 91051227, 43668935, 22201426, 42725048, 43866169, 118660125, 33421099, 93914598, 76797379, 51698942, 19610265, 43377992, 112993633, 48471823, 57896611, 10511576, 36449043, 36095186, 13573211, 125730846, 20852881, 89008177, 128975437, 96168059, 102428822 >>,
       << 92929883, 104632747, 98454796, 131198372, 75696454, 72755708, 59787261, 8220248, 8410429, 122328158, 112789409, 7859281, 82161748, 25602845, 88763518, 17341281, 16261472, 44738376, 19548674, 79029155, 34325975, 14478317, 66605891, 108221012, 57890753, 14708879, 14855588, 12916816, 118758725, 114219919, 41326142, 69136436, 130127030, 31431291, 21146021, 33620927, 100681393, 94410145, 5071282, 80384555, 54522336, 100590406, 46008072, 124564596, 101620706, 18189790, 125013139, 90833911, 55207272, 109168494 >>,
       << 10253630, 17678448, 16569163, 52077671, 109763953, 105748363, 55422622, 133712429, 95878886, 75642022, 40073497, 69291887, 11816798, 123059997, 94314072, 113456625, 85511771, 8099750, 247780, 10336951, 8627607, 22105253, 95241948, 27787305, 29427354, 131147668, 93414968, 3077765, 16450049, 56340040, 61036395, 77806517, 110809010, 51210029, 45266227, 131766977, 49483225, 83972706, 132465915, 52371294, 87313798, 62371109, 121558814, 32982298, 25066481, 29715477, 73598596, 97573541, 86856978, 107215287 >>,
       << 132116191, 132132716, 25791156, 52107433, 67772054, 41262689, 13346724, 39383671, 32325655, 41242696, 37789125, 52758510, 119578413, 22799053, 23517077, 107636389, 67821131, 3036794, 100658857, 65319238, 35411876, 88913917, 80899806, 86322215, 7487042, 42115106, 131721786, 26805154, 68778363, 90453088, 133654106, 115377261, 98031060, 76692166, 104515381, 85992380, 1826873, 46001656, 97995021, 82373772, 49286636, 994315, 82511786, 102448126, 121273269, 123490755, 97899340, 130207483, 36282662, 21717865 >>,
       << 70425193, 86043938, 9219086, 58518015, 72933966, 31062451, 53318377, 20455387, 44474221, 127859127, 59809087, 66013165, 24042098, 11513787, 3527129, 93971925, 67367203, 65828588, 24833632, 62661490, 38478350, 127976046, 124061074, 16416517, 127966545, 6766019, 111760183, 125886928, 50020452, 78249892, 10679405, 122991544, 128510367, 122573243, 46952923, 99476401, 61816584, 121490257, 116665894, 76848845, 68308057, 100356460, 112380465, 100606608, 117474948, 11284547, 50080124, 45576563, 45117496, 12223990 >>,
       << 74062642, 41874039, 79585155, 47954460, 96392886, 130817618, 106039416, 49398923, 22476935, 83577920, 56931900, 34357784, 33127402, 84143668, 42605087, 18865768, 18485525, 12888675, 64949805, 26608482, 17208720, 74046610, 41001566, 18998621, 35499094, 104271719, 70396280, 64363493, 124310230, 86316743, 89925540, 23027788, 76037645, 71771743, 8015544, 89007100, 21757189, 3019195, 119604220, 20792478, 82841642, 10209986, 86376054, 124712227, 61600013, 132739306, 23130596, 51534044, 42192512, 104009733 >>,
       << 14276448, 87747701, 86954226, 32745227, 96501742, 35258401, 19543364, 4395807, 41925371, 83902185, 45044129, 112878303, 65852770, 69215283, 101134209, 14926906, 132545074, 132676061, 32779330, 14319630, 39058672, 48707284, 128688670, 102279446, 115878088, 50968846, 18412800, 96860454, 50046723, 30485556, 8127827, 29350714, 8115146, 118609649, 18588354, 37665195, 114066076, 8770123, 29474954, 2102223, 2041187, 15511263, 15182881, 28311056, 8846501, 37807962, 56947648, 40583073, 111781631, 41262624 >>,
       << 24818695, 11227252, 37848920, 33330834, 62407543, 86193785, 64173395, 67400510, 90984654, 117430594, 90860460, 3729462, 129456209, 113875836, 49836271, 45072595, 89092478, 121916082, 82834681, 18534556, 99184921, 17869451, 119663744, 64212807, 129624638, 63653690, 3159107, 126490336, 88663392, 17030337, 57367571, 7123469, 99386718, 41040520, 75613339, 62596386, 53620158, 83610941, 125497832, 87308898, 63489348, 82218448, 78343701, 98788397, 129671803, 69544067, 125699766, 60381794, 93392897, 24673455 >>,
       << 47182481, 54068961, 90175005, 79409962, 58523662, 86968508, 104659727, 41033065, 10449672, 8541398, 28412678, 46662282, 2069306, 114628404, 60107253, 92743668, 58312495, 105530180, 38917360, 82963660, 83559083, 51044627, 60626161, 22534164, 94030310, 60025831, 94831110, 54073405, 25501424, 29228094, 75797704, 55147054, 67918140, 3528457, 126912393, 5376700, 59444048, 15191101, 122237090, 14221668, 82672229, 115907810, 37940473, 66988422, 42168259, 6405342, 88337078, 127346946, 104814476, 47805774 >>,
       << 85227961, 24697956, 17198225, 6104237, 12770863, 8865046, 19331849, 118696684, 113194310, 105798623, 111627961, 64905660, 109328345, 108817080, 130598900, 1102539, 98277166, 37843293, 19111134, 17258607, 128341932, 93911053, 49571765, 125082280, 76493226, 97304648, 29984206, 31604198, 87100093, 96332849, 122109353, 18562942, 28216401, 102536697, 74075787, 11504205, 108474306, 40873986, 31178676, 28480407, 14993192, 54530198, 120123492, 131117625, 127506031, 9983167, 57898938, 132182913, 54508165, 99139711 >>,
       << 115773831, 83410225, 118071721, 89183792, 63306391, 41258857, 91027609, 41257996, 122301356, 117796099, 55474556, 78143553, 65305462, 5324195, 65463086, 15364597, 15033108, 81017691, 133682502, 70739802, 108325899, 96312335, 77851734, 44359242, 120462899, 9119076, 106274532, 14756256, 15797961, 49670305, 66315359, 73169150, 121147256, 60888271, 17231262, 32195700, 78235177, 8056923, 122608474, 26474993, 66400084, 15761559, 43213576, 86863385, 49519428, 125598433, 123795308, 69226875, 53774344, 1404325 >>,
       << 24396474, 54001631, 40456534, 17478849, 28217098, 54117511, 116779507, 23856855, 97160513, 112813556, 40579039, 45488835, 106970337, 68381555, 72172258, 96812808, 131552923, 38333518, 95463810, 50509747, 99424129, 77948087, 114175789, 27715582, 59858421, 9286409, 109044418, 37735803, 61966500, 86832327, 74010703, 66688106, 46492532, 116006363, 3463732, 69680430, 89933433, 3095288, 47912509, 86722819, 93108521, 61675915, 84164209, 8788301, 9059549, 119315771, 130849565, 109943481, 113415288, 66802756 >>,
       << 70949852, 34650890, 84843358, 41179195, 37459286, 6587691, 8113030, 20957908, 98421551, 65410667, 110769865, 34955979, 103866580, 68311243, 80850278, 34291142, 22815018, 37068493, 41183338, 125787211, 31012210, 59265215, 81528148, 110831379, 27499787, 54494252, 52308735, 57413674, 128430844, 7000826, 38465774, 41548212, 72307513, 101439461, 53316671, 105470500, 133986554, 98599290, 61543781, 15666932, 16042897, 72285113, 70333513, 10203401, 54642413, 9106790, 70609556, 22655415, 99297871, 65737136 >>,
       << 96213641, 59127014, 86518956, 29562811, 39707978, 110545648, 59780652, 62230141, 38684778, 78936224, 56052158, 58808094, 130511148, 69508709, 99435835, 39149188, 50317913, 93987472, 16834553, 62117656, 120256171, 31548797, 92826630, 132563139, 32528171, 86197138, 85095346, 85910790, 13736510, 85978235, 69321557, 111337723, 107801934, 121281387, 69789230, 14033062, 42633942, 55753298, 66505927, 43901552, 114751087, 38238655, 16227999, 109987123, 28671971, 106185019, 44979393, 37216654, 84271251, 103009506 >>,
       << 117370904, 84950925, 47231005, 46106504, 88835475, 58812306, 80151113, 61306921, 85466375, 108334683, 4012791, 97157599, 61778027, 80682039, 105184510, 96527145, 8191057, 63912626, 119915014, 59319593, 86159135, 7418186, 111726076, 41439028, 84679663, 85885875, 50100864, 45283771, 130018148, 28249166, 3597126, 133011478, 2645173, 9561156, 65086738, 26285161, 13942557, 104182909, 124568312, 35190509, 14002900, 20314182, 63183830, 23097318, 129055512, 47169717, 78886552, 23543100, 14554985, 85673118 >>,
       << 24620657, 77134885, 84068201, 74386373, 47966380, 51257392, 60102402, 92697797, 17069555, 34672842, 7015048, 49221473, 49127355, 45893039, 105779486, 86669167, 122823196, 84084542, 21821510, 43824193, 114255343, 112497819, 14039920, 66849489, 62967747, 38751033, 85181877, 71375549, 47676501, 57857247, 43045913, 20939700, 123896595, 87252676, 54164155, 41343636, 122478350, 20897506, 101911445, 117999959, 100509648, 36193334, 28994562, 58755967, 41312788, 20730460, 67818338, 99913130, 18152464, 104972772 >>,
       << 20660019, 3177067, 24808328, 17070375, 6883776, 36936830, 9776984, 473543, 56155184, 39268139, 121402061, 76616333, 54467889, 5632177, 61419295, 21734195, 50464693, 45695129, 20989596, 95840937, 8281364, 128038983, 111216419, 117591762, 92149726, 14341678, 97197812, 37392210, 68927238, 61918440, 56287324, 6321544, 83605420, 55189957, 60588023, 127586888, 31121418, 58937833, 22849312, 50188348, 4502935, 7374681, 76984297, 32027465, 133052150, 21581542, 130760625, 15732356, 98618060, 76899906 >>,
       << 45965734, 52307777, 96726998, 112670293, 132873053, 83500889, 26189587, 105927254, 24075158, 7946893, 50262289, 98310282, 143584, 56703633, 97749209, 46623800, 5593711, 53279205, 119935089, 76279500, 52112416, 122191887, 84337897, 15235645, 90332109, 96745914, 103086512, 131658808, 45071160, 122845890, 72612878, 69771282, 34013249, 36578417, 89850979, 47142306, 16992753, 29181726, 53273710, 33560472, 77896426, 121731153, 35485433, 9689190, 13889318, 121530673, 99683436, 3657826, 107425505, 4462309 >>,
       << 106671106, 119274769, 90920265, 22902802, 4454330, 72178116, 76467486, 50371558, 65991483, 54212054, 100225537, 4575629, 39926537, 7848544, 127190559, 105961691, 55287289, 19298186, 32877047, 126913974, 25031757, 12964261, 112274084, 48664280, 16081861, 93486216, 129284186, 111440495, 62578744, 42284679, 16724727, 80838861, 50507170, 63454989, 79220762, 106392272, 24002532, 119530805, 77387181, 54726521, 3685975, 45274806, 70197320, 57768586, 47465504, 31454692, 10819970, 127415558, 36320822, 91099530 >>,
       << 106914774, 28426838, 36303608, 120638065, 23909156, 24091440, 4403173, 66473052, 110972372, 6264821, 121075506, 38493835, 29123689, 10558868, 106035738, 91914483, 6073381, 125060090, 61126821, 61392941, 22598551, 22276038, 19247867, 75344195, 62650510, 34064185, 82932986, 124980348, 127414719, 80188419, 116819738, 44623888, 122478364, 68002973, 76022430, 25834022, 98498682, 53715764, 65315479, 125144487, 39333481, 22064440, 72576508, 97659759, 53352338, 4426279, 11011415, 65249390, 103851358, 52597322 >>,
       << 132134517, 119012459, 92738153, 86053297, 63239537, 89614433, 116294074, 71107087, 60427249, 128234175, 28645378, 121542049, 67466237, 102405422, 117480665, 69247178, 7697896, 15849017, 13935976, 8555036, 108253039, 27731098, 4440725, 87632829, 46985753, 23102124, 92212909, 125392937, 77918067, 20185467, 126833049, 27900907, 71085832, 29866303, 48869996, 123994213, 129527128, 22065242, 19856960, 28235919, 62472611, 66276279, 45020048, 5937249, 36206485, 38456535, 106791347, 70367553, 107627642, 4022869 >>,
       << 53355970, 87642319, 32501389, 84447474, 25114237, 35426258, 37400714, 73854573, 91437718, 81800317, 53569273, 73670555, 33600929, 54997294, 4649758, 37411841, 113311715, 14716231, 124321500, 125490667, 95684931, 22725140, 56119220, 14070060, 53152451, 97168558, 99800806, 49181393, 43604979, 84691533, 41740797, 17421041, 62690828, 78590173, 33236569, 26358707, 88407711, 78916782, 76612190, 62925112, 7474815, 17753605, 16209063, 119177468, 118628409, 39974692, 89971307, 51120267, 10388359, 99490727 >>,
       << 51744677, 82229430, 111301700, 99893980, 101720284, 4669873, 41858482, 63562958, 89844343, 51010147, 9779161, 6772165, 19973740, 129541023, 81969102, 115065034, 57346784, 88851601, 101715977, 87038979, 87133404, 132562626, 49223437, 35371425, 39427000, 11078785, 78785902, 100425848, 5972535, 101680991, 106864634, 35592376, 26630009, 65670268, 62400311, 116349690, 4445369, 22408591, 82939173, 88615219, 55624726, 61525679, 124101875, 117939463, 4413389, 44311862, 1424104, 27593123, 43135797, 55506209 >>,
       << 104490635, 110992461, 111670757, 22599162, 31898665, 127416677, 60546101, 109725899, 25077805, 131581918, 101067186, 36806554, 53283208, 89596786, 36040418, 103565303, 43687552, 131823575, 132980572, 108514310, 53314406, 1289755, 39474257, 72114183, 102009706, 120421173, 119464637, 47953155, 117081414, 11599317, 11412218, 78537259, 79613003, 4210561, 122327746, 54304458, 42979992, 101029964, 52736654, 98253925, 31584042, 23614475, 115624809, 24982678, 90367154, 54258765, 65124912, 81228848, 9567395, 102074207 >>,
       << 15483155, 10326221, 109283704, 65952595, 68273896, 45202555, 15308020, 24119687, 46659544, 80903918, 95485647, 23000256, 91478772, 60948966, 23964049, 106906569, 129860773, 78077127, 10358685, 54414716, 80108427, 39080100, 126719407, 18739059, 102375901, 19573462, 17547709, 118156967, 113828237, 81460472, 19063230, 124024275, 46728045, 33119886, 73320600, 34527122, 9487711, 74082682, 59469196, 44338695, 106118330, 115570970, 64210676, 129741079, 124672788, 52380105, 11628462, 65761232, 54386957, 50246656 >>,
       << 91219218, 65036948, 21715954, 21458327, 89910968, 34675653, 115807058, 122640735, 124700815, 48860657, 112830445, 69901055, 120545906, 109824704, 69855231, 131111985, 115778090, 117654005, 31615387, 58518592, 58101392, 1887210, 67062039, 78558548, 75111736, 29029725, 31527727, 133825885, 88971926, 37934504, 6395620, 68957881, 26980791, 98392206, 109205163, 107728880, 26106296, 63337926, 68618095, 29278399, 52662382, 114122892, 85296662, 15084086, 47202059, 111830706, 85163618, 77350082, 24495702, 114340015 >>,
       << 52218934, 55653116, 70121833, 54467219, 51344096, 86496542, 69479997, 3166966, 72758669, 126776732, 2970258, 64602958, 79032945, 49555890, 55979497, 45083938, 32021884, 6825148, 3388219, 6638614, 25020294, 108926605, 19209288, 65033587, 134052409, 48935206, 1814693, 82666451, 27073495, 92868410, 54917268, 88451307, 109281767, 2114803, 37703561, 63127871, 117269308, 768681, 83052838, 20855880, 75204135, 4785355, 31522703, 120095765, 29811889, 60747469, 107605504, 11676352, 35549512, 19060623 >>,
       << 91565341, 14960060, 28980287, 107974960, 63387208, 38746511, 60340868, 110597815, 23695397, 66950655, 111109887, 76335023, 30557282, 77683131, 23545030, 84672527, 19311313, 91971170, 54712498, 132789766, 97145664, 94406544, 67552246, 83497069, 37355681, 117310968, 76581651, 43986957, 34900562, 21179947, 66940549, 110491652, 55913465, 99512651, 117574208, 16906298, 81972671, 33068267, 97835929, 97831890, 102119959, 33091057, 126149698, 53045568, 98108134, 77055458, 117058452, 129651390, 68553033, 28758322 >>,
       << 18966208, 100932274, 41523627, 3996877, 91140063, 63260704, 23335270, 107133329, 123018003, 69130337, 11471908, 104955622, 133162074, 82820409, 111267857, 46388935, 82103427, 67423185, 14068269, 84641030, 122135219, 89533425, 55894720, 123502915, 10107376, 89227066, 67267305, 3416554, 79124666, 107297311, 67936618, 109905428, 100819200, 4135520, 80503644, 71707137, 75337373, 97150951, 8374992, 35268854, 2605566, 83882175, 27897940, 31021015, 52886682, 97063105, 23755874, 58732528, 19675252, 133583870 >>,
       << 36062717, 104382419, 40551438, 44199192, 111274921, 17048893, 24921334, 64948493, 48236901, 80838495, 34761278, 18265117, 52305779, 65568844, 31214929, 107006386, 17965079, 92543777, 94454046, 95411978, 94765932, 65011680, 24085250, 24879792, 120212231, 19824502, 13677951, 107436355, 42328756, 133770702, 46748947, 31958935, 19596590, 42961211, 6735663, 104306473, 12929812, 52660529, 83013579, 116110480, 77640799, 25178823, 104329521, 117273433, 24951784, 76060951, 125137059, 121815991, 59403392, 34037937 >>,
       << 48518573, 12965788, 11454739, 94572700, 89268443, 52966595, 45399360, 109362351, 94262555, 132699573, 104783148, 104872707, 9193409, 56651016, 565657, 73369582, 53550233, 23285469, 104007246, 128731192, 39751649, 111836073, 79576137, 105128305, 43619394, 117943301, 14259267, 30163829, 26748873, 77988765, 57073716, 57189553, 109165533, 96844818, 624536, 127418586, 98709983, 127556776, 45771765, 111124360, 62315851, 43447248, 113257494, 19990503, 86088354, 77170097, 54506392, 53031529, 99840658, 40913032 >>,
       << 121703324, 128795980, 64277208, 8817730, 131018913, 91294557, 12549604, 68724347, 11504753, 28480568, 122482653, 120327712, 18066741, 88362908, 512549, 60864315, 20809575, 25945431, 98894087, 76953807, 15928981, 78242360, 95270761, 11712886, 72120270, 35311218, 130644389, 53635419, 44240344, 124342807, 48982159, 115476726, 7277146, 104056275, 55135274, 125797121, 29167155, 58066760, 77886355, 93289408, 89176082, 115121550, 68261323, 45663504, 133801093, 121563224, 105732457, 8502822, 130183134, 50763517 >>,
       << 61488707, 118412554, 98974081, 116784829, 56441100, 87081112, 117307265, 48407826, 47673392, 83221979, 83035472, 126034171, 100963304, 77908245, 10096897, 126372058, 128565770, 80120675, 50880926, 133974538, 110694863, 55359240, 78557831, 59434188, 54488780, 8246613, 99406998, 24667066, 18510183, 26482710, 50766347, 36874819, 131995277, 41117308, 76786068, 95192695, 76953917, 106430801, 107200393, 46635310, 92111257, 13977574, 113755736, 38831423, 31473589, 60439900, 89473454, 608061, 99046287, 36094533 >>,
       << 26454607, 119100599, 91250447, 33815032, 130705937, 20814233, 39830164, 81483288, 13903226, 114294889, 56115256, 20848359, 57690164, 26512289, 16057929, 66766794, 62802894, 62998502, 102535651, 36450465, 95053313, 120887530, 36696983, 19852721, 24307688, 19478432, 13256033, 115138128, 24955084, 91231430, 40469146, 17607983, 129796953, 86665527, 14457220, 108727583, 96182968, 106563311, 79234941, 112931057, 64367248, 25742829, 130632362, 68882412, 12434510, 89677971, 98325336, 117289560, 107672169, 91600327 >>,
       << 77354996, 3792389, 123045477, 31215627, 34544104, 59560041, 27380749, 13952871, 60894763, 43843980, 13547398, 4194973, 88803216, 23710478, 79312122, 124569315, 49036930, 72537851, 31730466, 97810045, 75097306, 43879526, 1978622, 67929835, 98722740, 27620571, 31561304, 22587716, 63613189, 13572305, 3274336, 40053357, 42154143, 27819381, 98790578, 128308897, 43302072, 11754366, 129556033, 29204122, 42658039, 87266815, 57242472, 98229231, 27079325, 132164673, 90204784, 95155881, 39561600, 133711253 >>,
       << 30222198, 8782995, 93519304, 58988140, 129256752, 10448678, 81261538, 90423611, 129339362, 84931084, 129689162, 8658047, 119967115, 134216979, 51098980, 30901399, 124791098, 108234166, 26252476, 101965244, 46739546, 35056585, 59893254, 84318036, 11423831, 94163621, 48119803, 116988502, 34959499, 116145463, 133016808, 28343695, 32629414, 125733355, 85756179, 85061717, 67901964, 126837554, 120722993, 22330427, 43439134, 40626827, 14462279, 65064008, 107483204, 55051685, 73082960, 76697910, 129375104, 18890075 >>,
       << 92521344, 90468472, 19745581, 4376263, 53426682, 123889044, 72397561, 17844439, 76452009, 127049430, 86566171, 79439120, 121109624, 97419560, 34186225, 45767158, 103682602, 73961505, 92308210, 5577404, 23316868, 124721701, 68749270, 124982170, 40753862, 46516063, 61855781, 15904323, 90500511, 74713134, 56051934, 76893830, 128064245, 92166140, 131547224, 13418988, 101539426, 75724175, 89095113, 86490543, 69018314, 130440325, 11445760, 57340525, 99797850, 23621676, 49546108, 126356718, 39371043, 80117512 >>,
       << 81208011, 26236086, 14331549, 123518027, 40592467, 43250730, 33394270, 97932092, 56133851, 45461156, 13396687, 26884931, 29123202, 123566932, 69430168, 129701365, 58199281, 14895355, 105588038, 29935486, 55602912, 62538184, 92923207, 39028771, 113910975, 51812041, 10970240, 57858050, 13484456, 57625909, 110868412, 1455970, 42777522, 36601795, 32347489, 30402570, 60757039, 91530121, 2662692, 64974772, 100977471, 89683091, 106472879, 93191942, 111564833, 31799653, 51345428, 63031340, 10499540, 17052858 >>,
       << 66861330, 94059124, 34851188, 64945658, 545084, 56049898, 81265470, 101051334, 122730797, 114679042, 50314165, 129286631, 32123671, 107989950, 10482951, 23364581, 14497831, 60858300, 105956157, 70953929, 109427961, 102796200, 79834428, 40611207, 114925901, 54856, 88992481, 92270431, 52059020, 83455674, 103295753, 60539079, 18847760, 132509972, 79736214, 57201459, 59901954, 132332639, 18899143, 114628346, 7063059, 36621604, 11955160, 74438668, 57718032, 22777189, 82256280, 26223087, 8748806, 82659445 >>,
       << 101456817, 131229420, 14188682, 86551948, 50601986, 119301981, 59564466, 74082005, 124233377, 118827099, 84933959, 60701954, 42080163, 99775923, 92545841, 125628491, 74920299, 51690832, 92643653, 34607611, 65954494, 129462554, 34693564, 1915785, 119272609, 104573688, 118582812, 15706272, 81541675, 110148023, 19303247, 85656032, 48804539, 46240715, 33119985, 117711949, 16197723, 60807488, 130795010, 44946095, 43782353, 107274402, 162494, 34963280, 52491448, 112464744, 13798509, 58311745, 15058492, 39588876 >>,
       << 94758019, 31403148, 72679170, 113504879, 98405923, 121141720, 124892142, 36487538, 6558277, 30426413, 80934056, 117178260, 62553158, 16871208, 113467244, 50819753, 63990527, 45137395, 37761032, 46398291, 59056761, 56125192, 109860501, 79048335, 84859916, 7706284, 78097521, 39496600, 11947054, 34627995, 17385055, 47752548, 125325739, 88594267, 100986657, 8295843, 82746886, 47329749, 52655906, 26390056, 54852840, 90895399, 98145666, 7546152, 29268622, 68377590, 44303812, 86748375, 43235309, 21537078 >>,
       << 68060658, 101433052, 70175780, 24970351, 25478447, 15553975, 126238479, 28202299, 19940585, 82911944, 83169840, 133105759, 57378105, 65255584, 68684907, 29016033, 119996055, 110457645, 115376977, 41430031, 27202296, 125289122, 48175106, 71911375, 93855780, 91687822, 90079420, 48957836, 82891860, 77705279, 14505082, 116964053, 81399503, 62175251, 118385666, 104048507, 62563890, 54934428, 33183174, 68752546, 48583100, 68694529, 124979859, 52587653, 94437352, 107487522, 88250917, 77252538, 19868215, 19026598 >>,
       << 44842745, 95646989, 86859475, 93636432, 132640758, 36207497, 30411348, 65463132, 92920951, 54624669, 26326556, 56496752, 54391205, 23707597, 67456484, 66749702, 13012877, 10311556, 61935961, 109037201, 15552431, 129529563, 108399003, 58682668, 49783285, 115590234, 28478539, 129547396, 85486108, 45968577, 80123805, 101654305, 44672766, 46586506, 131161618, 26208969, 81268171, 36150830, 124184399, 49566878, 108285342, 6396405, 57041358, 89319029, 76251793, 69977498, 82588934, 45216006, 67451493, 104480496 >>,
       << 88224480, 17242499, 81458948, 35389088, 72225100, 55432675, 31604487, 104930814, 107658415, 8205951, 81435258, 77005538, 98115148, 61970673, 94472895, 20195611, 69861588, 44765012, 43657128, 93211603, 84271587, 37139992, 16294153, 59951563, 77898263, 27430811, 94060881, 111774781, 103177337, 82711050, 40158345, 122456593, 29439178, 11428703, 41907043, 120406127, 75963545, 94598490, 15933402, 35340693, 21325664, 122228625, 9560033, 47811450, 33881021, 41610427, 96933423, 117197780, 131371518, 117332712 >>,
       << 4452665, 77818623, 53872285, 62090698, 113096477, 52261175, 19734325, 41779531, 122108598, 19140170, 73852744, 128039734, 127785212, 48416221, 66387246, 35124986, 4428397, 41505175, 3031995, 127302408, 104423898, 49668050, 21325094, 99937950, 89890253, 92848407, 65080263, 85445536, 92707952, 62443744, 133119227, 124624905, 106068441, 2648580, 26985812, 49416342, 33754093, 123601584, 61992958, 57848622, 51051011, 125348648, 109186942, 107358048, 109303024, 31066648, 6709829, 129483318, 60770718, 105945264 >>,
       << 129464605, 88436160, 118316301, 59265527, 76549547, 108975269, 81558768, 65565597, 43012958, 10323792, 89536852, 86538664, 62107, 78219260, 3779436, 53046972, 94488349, 87991892, 47464211, 102885063, 109654639, 129682138, 122159043, 13214760, 83410805, 114196505, 37976300, 3102315, 65453376, 22760862, 110939552, 107373968, 129691752, 30664005, 37646757, 127588889, 108011174, 54779503, 13763362, 48660908, 97494410, 5604302, 36499985, 15883799, 95582141, 99378832, 8394560, 66977946, 6693689, 68903890 >>,
       << 20527268, 75643715, 20340059, 18677504, 7066390, 78857757, 19265282, 110451189, 42642255, 11816633, 101611277, 93951584, 28267353, 82971324, 3809094, 586896, 24070150, 78536540, 92376141, 47767596, 6007908, 8593301, 105098853, 98795650, 12571870, 40782107, 59217565, 34455680, 121182050, 90522011, 111262266, 113527097, 59829814, 23687364, 82798994, 76798036, 7357019, 95065558, 46631974, 134112705, 49679891, 43218310, 16985016, 32297865, 64637055, 67648175, 25204632, 93177275, 82951028, 3746612 >>,
       << 33883863, 82301928, 128872284, 122843717, 66375439, 46295993, 64436474, 94253998, 103346054, 39320205, 42051510, 50565655, 124589419, 73039367, 38010244, 38057842, 18307660, 110688502, 51294750, 31123805, 26250336, 28284627, 110507202, 126636474, 32968100, 104265747, 120629310, 114202785, 85167712, 74907298, 73019361, 119671774, 41277156, 118690785, 98019484, 116301195, 55616876, 45989660, 8886555, 76602349, 123334772, 5642912, 27806762, 95689793, 39051458, 75357038, 26820764, 106298159, 7122637, 75048321 >>,
       << 18505623, 39538981, 11971638, 27978168, 5522065, 15771815, 56671963, 106655884, 6581403, 54437048, 88828706, 103476170, 106014123, 34182277, 88782474, 115118563, 99231281, 35292020, 107984015, 78068457, 5505650, 27024259, 49142523, 85741381, 99894370, 75963057, 32626478, 117363424, 133594542, 39011450, 124455029, 125178880, 15939547, 129545714, 65139157, 91650572, 64965529, 99225464, 118662546, 83920717, 131639010, 26098941, 27365675, 38212512, 96407699, 92243717, 87430561, 31369709, 125532486, 100789686 >>,
       << 95116496, 84621886, 5700497, 128462102, 101751760, 94427835, 111971474, 123019075, 122946732, 60919327, 14902277, 73423557, 96598019, 109764589, 20382270, 111664716, 131003698, 13404645, 83960365, 114172003, 71312233, 21421489, 12351007, 107486995, 51392760, 89998133, 2264552, 118724880, 58228128, 89275114, 25279893, 76366816, 22140842, 129061465, 29493225, 8996426, 70878292, 124636564, 50493921, 61915394, 133063688, 85196903, 89362730, 69931075, 15232542, 90618635, 11402615, 88773885, 108123438, 110601869 >>,
       << 3660542, 73018096, 107699305, 127262394, 124693358, 8153190, 20703278, 124210651, 116784224, 31613334, 123266189, 72701326, 74773899, 32345912, 119094487, 53568546, 133845301, 77469076, 91257903, 64378574, 122115900, 841472, 103395290, 90697263, 18848809, 107071948, 112762556, 89943048, 106444810, 47765160, 60361926, 81624353, 118480999, 42475082, 32181519, 105003529, 48010717, 56785504, 41555012, 36296752, 88497267, 8567932, 121268089, 9329244, 81298909, 87977664, 91483012, 25401357, 46798985, 39189017 >>,
       << 122125861, 104727155, 60580139, 93142322, 24805675, 70245582, 52437808, 33422012, 79434545, 131499130, 75908736, 94141295, 52633171, 21815890, 41092755, 108347546, 2236153, 89061811, 21046701, 31077008, 67404022, 94273203, 35222432, 129901606, 83618532, 19312721, 7728324, 30263170, 9437976, 63737894, 85050484, 46305654, 83623038, 10107015, 35077368, 43053931, 1344828, 81497634, 5958157, 80732818, 86262000, 3163424, 87898707, 25668748, 83496799, 90581296, 49018576, 102959065, 64324848, 18581071 >>,
       << 69953276, 120122423, 50507167, 82639694, 32417554, 82526070, 45632834, 31615778, 77352053, 127609990, 85787097, 104985517, 126205145, 117787238, 111643719, 12030056, 3296199, 51398100, 114105516, 96358087, 64535895, 30397665, 29551908, 28597836, 123437009, 69752857, 24737868, 59679156, 51539454, 130217074, 132389781, 42944385, 110063474, 29044743, 127243236, 102142037, 39659642, 72509856, 89905062, 7041988, 115306739, 23891435, 92912647, 40258354, 77374142, 52238018, 52507347, 69945512, 82642499, 77152326 >>,
       << 94531905, 22987435, 31604261, 129230974, 74804869, 48612756, 73530097, 46317131, 97247965, 44452916, 99197470, 24483845, 3653240, 9855123, 216790, 91280988, 123860079, 15019417, 131801265, 85156305, 93867989, 127613406, 121261614, 92958618, 124110154, 108967036, 91240694, 48874511, 91073867, 41621195, 40632651, 103856584, 41362456, 73896036, 113980126, 41613298, 65939468, 79810391, 18952122, 525272, 59939395, 36376391, 7642740, 49182457, 14072478, 107177959, 97685642, 110545619, 92793100, 73734832 >>,
       << 114820524, 130269150, 62577345, 1868577, 130662269, 25337606, 91069746, 18074769, 22825253, 13781290, 96982312, 87472266, 60675031, 61238643, 44050958, 82589947, 82180923, 7335176, 17978174, 46224058, 104337189, 33707568, 100423516, 120377880, 84170418, 80127943, 125923888, 133714018, 71084036, 32360212, 77063904, 9991167, 3496882, 129005110, 132192993, 28025120, 23615121, 837102, 92762786, 36816736, 14203880, 97053555, 7011163, 30809946, 85886468, 65335181, 17614817, 68209349, 102265716, 9068973 >>,
       << 7353817, 132508732, 20156935, 122017425, 100983305, 118291061, 80187864, 60919059, 23128765, 79918506, 45844309, 109729328, 111750986, 60136290, 43853229, 133352513, 47942394, 118731989, 130064714, 15357693, 20905965, 57890573, 28803839, 62184131, 7494556, 86381641, 7486383, 66286177, 102358850, 81503627, 57223476, 103364361, 124414337, 125076009, 87943849, 99948150, 28394403, 27896908, 94213736, 3099901, 106938703, 24250844, 21254824, 46835358, 13888210, 62674283, 51959155, 57635345, 58640402, 112163706 >>,
       << 71475920, 83616696, 82028150, 23391916, 15848362, 121614850, 22042901, 65646130, 38342188, 56088679, 21525708, 13241110, 114525364, 27904295, 28733874, 40653862, 48911837, 77457542, 119528341, 96238802, 46656783, 75392415, 23767798, 85763287, 83559014, 127099241, 49328546, 129111535, 53400396, 125726515, 47037608, 53386615, 21423696, 8580772, 77853469, 128095575, 22964327, 80252579, 125494710, 97357975, 43777609, 113411240, 80297539, 4412761, 78311373, 120283174, 98511080, 76077348, 40794875, 117414934 >>,
       << 39861261, 10077771, 100758038, 40070912, 66901859, 48919620, 123286645, 27922737, 102140216, 58920549, 57390662, 113544337, 26302665, 101372875, 60646564, 102118712, 74576894, 121750064, 95290594, 131409944, 110450947, 23538324, 46821899, 129026059, 56025331, 125519081, 39206585, 103300394, 68189543, 47498827, 72933587, 57500316, 122104111, 41840188, 133565821, 66801500, 58648841, 56061838, 78323693, 48063636, 120615221, 89125104, 43386990, 90863175, 66660836, 65243312, 97027790, 600702, 43158639, 15785548 >>,
       << 75260791, 54604273, 115638034, 49037300, 126307258, 111621342, 7013813, 53192069, 62271536, 80406698, 97938199, 103897799, 77989923, 55506836, 123934104, 37587772, 116005139, 45246115, 8941648, 13345997, 50204969, 78637846, 86055379, 704043, 42012203, 82711001, 18434592, 117239979, 133913866, 113185731, 44476709, 55409128, 67522187, 61252679, 372849, 41662071, 117116002, 22238753, 57009139, 35210750, 50721410, 128503736, 81920569, 67044328, 82856601, 47930492, 6225868, 113827085, 97909263, 73210252 >>,
       << 6322950, 105382077, 104240796, 40185344, 92427928, 53341963, 54657758, 112643826, 903018, 92962234, 127772899, 84298323, 52310070, 29577836, 68077657, 94505727, 104986123, 109911419, 111227965, 24634338, 67716971, 49832439, 4249689, 96103375, 39694970, 13718489, 56039888, 19088374, 102411553, 62369093, 44324033, 7812, 115282831, 107189752, 84509328, 85794390, 21845391, 3704787, 85818566, 82482716, 21193209, 24228342, 44913261, 23458745, 14751071, 24755473, 102804513, 104073891, 109180598, 30093371 >>,
       << 75306558, 1678608, 23428806, 77960463, 109658040, 90191982, 96822674, 37810126, 35628694, 93944293, 110073158, 51305362, 131407736, 132500935, 117957117, 112997890, 18040874, 120531378, 66116910, 50738755, 32679457, 43510956, 128357220, 96494437, 12874700, 119032644, 116940546, 39412278, 68651686, 62281794, 35373816, 79203413, 114487428, 63255680, 84563238, 12295753, 42293982, 89975717, 13092283, 17656842, 90318528, 80178016, 127217436, 44131612, 37017050, 49620685, 101172277, 108108783, 75202936, 80301625 >>,
       << 32265866, 97996000, 132182436, 73307962, 42029959, 30011624, 120469291, 84834336, 132864386, 116191015, 30474231, 44492725, 67138783, 115923494, 88685344, 39365145, 76568606, 81752736, 84196828, 112204037, 80925878, 91604848, 82427491, 113190223, 100975035, 8930944, 58150794, 79240761, 46633691, 29909180, 126699930, 46731604, 123782073, 102247763, 86587707, 86938413, 80537047, 95604261, 45600149, 19213640, 17914094, 73836456, 96032027, 63549550, 87547005, 91207622, 43176937, 10625718, 17414684, 133067314 >>,
       << 941440, 76684221, 93013378, 5927296, 8823818, 73579176, 12054727, 66644413, 89572512, 40524139, 101208782, 77197424, 61406267, 33477660, 102830442, 8491998, 16441717, 10678373, 38538041, 119948424, 81501980, 56810647, 32053412, 28179050, 56858737, 114167017, 3416598, 75770079, 72851266, 81894307, 96366987, 12925004, 124731121, 116819293, 7220733, 42212661, 89852169, 392359, 37827108, 90269043, 133586181, 100844819, 43248576, 81223852, 100920554, 52278943, 85243171, 114031413, 13688975, 83007146 >>,
       << 87833129, 60704548, 120778531, 87085746, 129137105, 36130187, 8267309, 3757910, 113668480, 94603353, 48606701, 82813354, 65867595, 49261176, 104225748, 69769395, 27908811, 35128146, 122283019, 90246425, 133153552, 39038146, 47997753, 80588472, 98703803, 36581303, 22552579, 11946991, 2211715, 96111369, 40223399, 21865358, 2240839, 90718694, 68306683, 121445801, 39514786, 109205455, 12053370, 117630465, 68944067, 25094299, 73194749, 84179053, 124314990, 127403370, 54635459, 43021856, 36431173, 76540868 >>,
       << 4837257, 111824759, 62439973, 73442569, 59450517, 23363058, 43544464, 44150928, 4674710, 94770057, 50098801, 41719202, 16029722, 44908519, 133230269, 119034991, 16213131, 81365059, 6463470, 77009530, 27522916, 61472737, 49616284, 112060243, 60094965, 101888763, 62528729, 131718959, 298939, 131842707, 112215303, 114737292, 59433192, 111185834, 105225627, 77747081, 133587911, 50878418, 88230509, 121157614, 3976889, 132466080, 115107176, 91504679, 53945179, 12438773, 121894950, 89982533, 56876816, 78780552 >>,
       << 36989693, 15132415, 28354093, 102064427, 48996225, 109558446, 13499076, 23063373, 109675445, 72742675, 35239437, 105787655, 115729207, 74705995, 27511906, 50986270, 113794152, 80657707, 42032665, 131300556, 104202606, 105337848, 48322426, 78915659, 111369991, 48921104, 72221951, 130110825, 21490964, 65012122, 62145777, 98926697, 8266283, 93036312, 54925616, 78252454, 83131998, 113620595, 17636187, 118943271, 18315945, 55815491, 80403123, 112582446, 88085109, 14820217, 110142457, 50276408, 52165498, 75612068 >>
    >>

\* The successive 32-bit outputs of MT19937 (genrand_uint32) after
\* random.seed(key), each shifted right by 5, fifty at a time: MT19937(key, c)
\* holds the outputs 50 * c + 1 to 50 * c + 50 of the stream of seed key.
\* The 5 low bits of a word are never used: random() takes word >> 5 and
\* word >> 6, and getrandbits(k) takes word >> (32 - k), here with k <= 10.
MT19937(key, chunk) ==
    CASE key = 42 -> MT19937_42[chunk + 1]
      [] key = 0 ->
        (CASE chunk = 0 ->
              <<
                 113336382, 51706749, 101730917, 119486516, 56448162, 5433721, 34751217, 129582503, 68622131, 65220111,
                 54349339, 123243325, 105199665, 111380971, 40709944, 129895916, 63967760, 48056573, 78300211, 119676667,
                 121884848, 29318886, 67737923, 18693000, 37827635, 18756361, 101442323, 12727969, 82996081, 107293997,
                 33622391, 132507686, 122104075, 71479480, 131907233, 94646617, 108745516, 80785928, 121086664, 19724825,
                 41627302, 13255791, 97956359, 9897541, 120640032, 114148664, 91802769, 44318320, 63369922, 75136920 >>
           [] chunk = 1 ->
              <<
                 13515887, 47485068, 58273557, 42439202, 81991861, 85956173, 122542269, 27444538, 129735710, 74158472,
                 64023168, 59417296, 116139932, 69974900, 34962686, 8359024, 108049005, 123274271, 73645173, 122942698,
                 1884645, 12518737, 96597127, 112755134, 53529189, 95328600, 110708818, 105367326, 89678004, 83921759,
                 153386, 82127436, 66246899, 111140771, 116447673, 44712641, 32737163, 98016331, 43648190, 94441303,
                 116832671, 8453606, 25644590, 123080202, 76170002, 29756593, 32026487, 107823147, 129861054, 19125273 >>
           [] chunk = 2 ->
              <<
                 107800923, 72878878, 60125458, 12242798, 10797254, 133307940, 42957001, 117452227, 68174638, 133945484,
                 125202836, 65670960, 14637496, 40459503, 73989837, 39069528, 94833067, 16751810, 73476275, 44661017,
                 109315891, 123782263, 72515638, 27273290, 129364219, 107297290, 80958204, 73447981, 78868627, 38608704,
                 59725416, 12298651, 80032267, 107097025, 51660557, 42553307, 77262571, 32495072, 38967366, 24678442,
                 25419673, 110255463, 25062413, 4425482, 82245023, 131707821, 88135331, 34904153, 63958907, 9272465 >>
           [] chunk = 3 ->
              <<
                 12056021, 91096787, 101683877, 17478429, 117678127, 20072305, 123934102, 5186383, 113073097, 10770746,
                 120550755, 93861517, 123894027, 111314930, 72558093, 91737600, 52518866, 112456367, 94661535, 70407122,
                 36994985, 70033481, 108934961, 31608507, 114016076, 28883828, 120130096, 91197504, 79161774, 110764964,
                 127475283, 56294034, 77805347, 36938170, 60473556, 66123086, 88616634, 86059980, 133715463, 93982678,
                 123069766, 131863600, 106478290, 47965060, 11055915, 43530143, 82246356, 15481980, 65289435, 78795832 >>
           [] chunk = 4 ->
              <<
                 84576944, 44999241, 113424392, 25552216, 32619689, 2175538, 98178821, 36378099, 15721498, 94668208,
                 29589712, 49937073, 106647121, 22881676, 44632246, 57194352, 109510002, 8347330, 13503312, 105108387,
                 19643903, 114799458, 93639768, 29363290, 6071213, 109672030, 77022995, 85121743, 122140281, 125697548,
                 71698837, 80821954, 91347127, 9931695, 3583183, 16702553, 85228245, 25302809, 81381364, 111412274,
                 77303096, 16065254, 52507238, 12285197, 49679341, 111916704, 131602717, 15575449, 4884456, 81269394 >>
           [] chunk = 5 ->
              <<
                 2904003, 26117555, 128987434, 130284063, 24826513, 96383539, 16628927, 64321652, 28263100, 97597122,
                 107474388, 8198675, 125757871, 91180437, 3057825, 73046040, 57125592, 83295518, 13623128, 112192955,
                 34885857, 9395818, 29639203, 9659876, 86828900, 40407795, 47015660, 58528143, 24201859, 8192977,
                 67596947, 62697292, 5285320, 80058851, 13545419, 93861560, 132638676, 52516202, 26757081, 34914494,
                 48124477, 121386329, 98193462, 63111344, 112518286, 121105223, 123276575, 76473039, 22739785, 93643315 >>
           [] chunk = 6 ->
              <<
                 90280288, 27301856, 129727997, 102991751, 7791465, 105850581, 90758267, 21234402, 113470968, 21737107,
                 45944411, 71064827, 33646685, 15732041, 80099984, 123670683, 59366384, 89336101, 23463874, 1772178,
                 63300491, 91439944, 55016570, 120809115, 76385018, 117414298, 68263153, 123146258, 41801574, 87098378,
                 47936087, 52162678, 112428979, 88263752, 33679612, 20590713, 75242487, 92720661, 1669174, 61465572,
                 99532428, 10613104, 45085956, 99189064, 6133279, 73057326, 37699500, 18097597, 32229757, 102296276 >>
           [] chunk = 7 ->
              <<
                 127926854, 64669736, 47274914, 81891021, 38638319, 90382682, 48211168, 79225729, 127091549, 119714635,
                 85060196, 114591657, 83359523, 17762948, 96048803, 41647436, 52078791, 100460074, 55622240, 111253446,
                 87353308, 10834472, 204577, 79802764, 25811349, 93762181, 44882635, 21485544, 32133866, 29943682,
                 85550299, 60147705, 50821283, 95341559, 117497338, 90432576, 76255992, 117378456, 55620685, 4233962,
                 53991372, 116996008, 94197977, 76164848, 56133417, 103641012, 88878427, 95161179, 6278663, 22236518 >>
           [] chunk = 8 ->
              <<
                 59774159, 8574675, 34792848, 94155906, 21164333, 59910057, 70809666, 118775375, 65399681, 121875046,
                 75350493, 81064472, 101399449, 9282, 118631715, 5222436, 66381762, 43747450, 41883748, 112439135,
                 62665215, 6691692, 108588296, 110423598, 117442703, 130751807, 109040486, 55718800, 25233106, 73626753,
                 134139929, 129256741, 84971734, 131341677, 11202757, 112400420, 97382257, 17518332, 132448937, 1976931,
                 53930940, 127446112, 91068742, 56033898, 42436577, 455375, 28658795, 1918147, 96277616, 101301343 >>
           [] chunk = 9 ->
              <<
                 316426, 131566208, 110425140, 90699226, 70913396, 82149566, 13124392, 25563099, 15959010, 81652648,
                 87142930, 26644416, 117259831, 40589594, 37578647, 92414274, 131334085, 24457308, 13446024, 63834686,
                 114613632, 123852056, 53243659, 84240294, 10917997, 2932053, 36871467, 122659046, 60797702, 107350634,
                 106346280, 15539647, 115609769, 34425340, 17907403, 87720276, 69909387, 109692554, 87346647, 86562471,
                 46580667, 15449714, 117019583, 20728604, 37367532, 114251465, 2493004, 5677088, 5457732, 27613383 >>
           [] chunk = 10 ->
              <<
                 91401839, 34852234, 74941238, 42240094, 127037422, 49243651, 125955123, 76164237, 122118157, 114009610,
                 5637752, 113596505, 100547173, 129010470, 94130223, 81550221, 87961180, 66368743, 95611025, 86455470,
                 121159705, 61560888, 85918297, 58443850, 49989293, 116958768, 72199579, 23929453, 27896363, 50409349,
                 78802651, 39062122, 1194146, 18583377, 20269987, 36423125, 44749316, 45299968, 105981426, 49284947,
                 96435360, 12577209, 45399947, 104611567, 83287215, 4786938, 5530166, 36188071, 21992990, 20054280 >>
           [] chunk = 11 ->
              <<
                 131790275, 78309491, 38860173, 48440065, 52988082, 132782004, 73616316, 17400112, 39380421, 15421135,
                 64164753, 98048967, 32172805, 125326351, 6476859, 41322922, 24103738, 115029502, 70202613, 97799190,
                 9511055, 40623768, 54112446, 112146929, 44093303, 40161367, 55662992, 14582946, 13341287, 75273326,
                 121957952, 64581852, 63619827, 45242184, 112856752, 107088883, 131027299, 109028907, 46124136, 16686592,
                 64301904, 15570338, 93898090, 66804796, 57248602, 5076702, 40520750, 44973932, 98616608, 92222408 >>
           [] chunk = 12 ->
              <<
                 120044306, 20892881, 123438547, 22354791, 84119893, 75764214, 50408332, 108195392, 130803298, 133076843,
                 85748823, 11666443, 8836180, 108417399, 11364157, 26580516, 100645790, 29669999, 8208240, 51648579,
                 1053744, 13163606, 52856008, 74688757, 69659501, 38899090, 60202594, 123500802, 65581305, 105802327,
                 78502432, 95885999, 91174447, 29159277, 56779209, 11229090, 49436611, 29546403, 132668728, 134097822,
                 35019624, 78547970, 104300617, 22358138, 57877506, 25762423, 48119791, 15436703, 8570868, 110324380 >>
           [] chunk = 13 ->
              <<
                 115907603, 114468755, 94221402, 3706952, 121200045, 70573790, 60614308, 100990572, 90854794, 27070094,
                 15959868, 66717951, 53412428, 34424119, 27814204, 86033197, 5650757, 133820509, 127233218, 107029674,
                 28976851, 83673356, 19643367, 14043159, 26571089, 61526486, 50738591, 48538780, 73335393, 110996261,
                 20311755, 14058807, 132699710, 80026041, 131934578, 65485018, 19918181, 75685929, 54479899, 85679704,
                 91258590, 56806160, 117797072, 69958124, 66492257, 91176567, 123083920, 119156067, 43279890, 111874972 >>)
      [] key = 1 ->
        (CASE chunk = 0 ->
              <<
                 18034063, 76397250, 113740630, 107678193, 102512094, 8470054, 34234785, 15826780, 66496171, 102134650,
                 60329669, 63383683, 87455328, 50951092, 105860656, 28179657, 12597620, 65479012, 3804733, 119898983,
                 112174493, 52319252, 58085012, 81528947, 102311500, 102966154, 282669, 93393106, 59778857, 35746282,
                 96843463, 107619313, 30703945, 79343270, 126872085, 13720696, 120987545, 42604684, 4105718, 2996023,
                 3415285, 87180606, 72667152, 1235465, 126050466, 118277206, 51164366, 92138303, 29071478, 130062434 >>
           [] chunk = 1 ->
              <<
                 56655527, 97422287, 3897788, 70817221, 29754951, 102502212, 58772277, 126052863, 66546792, 74203556,
                 31284065, 46399124, 30986382, 90845073, 29364293, 102132676, 61686932, 127808087, 38893829, 124353614,
                 2884299, 55858725, 112417812, 122979655, 74686034, 123774053, 86207290, 13421809, 24951916, 84470316,
                 133216921, 97125183, 115420069, 39780845, 16225575, 99743456, 44653591, 120202094, 96835997, 130627706,
                 95454543, 67216197, 125686927, 129816765, 56654242, 68144655, 111405504, 122162970, 89966890, 25481199 >>
           [] chunk = 2 ->
              <<
                 40717432, 38139224, 78863733, 130654435, 118444326, 67023240, 113574694, 126287269, 67818046, 52795029,
                 79054544, 114526370, 4633978, 64454973, 32580007, 99821838, 107025786, 54262629, 55608283, 89220365,
                 23220660, 49274526, 73658522, 118478286, 94360533, 104131166, 90527955, 99081602, 50291788, 11605483,
                 58916432, 89088064, 68239848, 14486288, 104480799, 21971213, 69919170, 112736387, 52781805, 49730710,
                 65725551, 98350162, 3969484, 62991083, 5836765, 41410118, 94406345, 113857109, 131961221, 82518497 >>
           [] chunk = 3 ->
              <<
                 79615772, 77601456, 52828055, 86859830, 22863882, 22628343, 67409318, 30459014, 131812095, 1651090,
                 103417865, 26778633, 72426227, 123491910, 115466139, 73596743, 31162152, 54285013, 68957265, 46147529,
                 127838008, 113744288, 77550306, 47415655, 61623617, 122105251, 36142079, 88478314, 73550819, 81731190,
                 128461972, 97898435, 766266, 51497950, 105180424, 115017764, 110123754, 128130457, 118941009, 125957861,
                 99388685, 68786576, 108600919, 17347564, 69615820, 104340483, 75344177, 27579764, 57188922, 127469162 >>
           [] chunk = 4 ->
              <<
                 7532741, 64572392, 116770786, 48954043, 76504015, 74410468, 26821992, 126300695, 67742434, 55485614,
                 65085546, 109166191, 47887538, 55623117, 46449792, 212701, 72273400, 72492277, 83683337, 105554778,
                 82201978, 44444516, 61491422, 80511200, 3754738, 107987488, 30817065, 85278064, 23784892, 73921254,
                 78445010, 24264416, 115562653, 12294532, 107164660, 73957878, 106984623, 114256063, 109580368, 124949997,
                 34264986, 4356590, 112977078, 126643855, 90343768, 9456105, 11171496, 116511469, 2240178, 60800468 >>
           [] chunk = 5 ->
              <<
                 1954206, 101219666, 101413140, 37741579, 33495272, 36056483, 14695314, 107010145, 83859516, 24777959,
                 46227654, 38961302, 9330196, 22477484, 21424575, 34254527, 70783798, 127769593, 22568032, 88134944,
                 36629955, 87000307, 95507983, 39526151, 61029019, 94304805, 43218345, 66638250, 63588469, 15326409,
                 3172179, 41876592, 51882816, 46082646, 56494748, 106864559, 25238208, 34684657, 14597747, 34018576,
                 120771594, 97999373, 68466607, 131095592, 28063717, 129595741, 81288784, 57935826, 109661207, 130936565 >>
           [] chunk = 6 ->
              <<
                 2794159, 30249188, 2397735, 53326766, 19657762, 4741381, 96480463, 128834700, 21505383, 59816615,
                 94570566, 67955685, 91023214, 57266010, 73108686, 111702020, 29608396, 131127519, 130942079, 84660762,
                 107080360, 93288151, 69336813, 60511395, 29956830, 70316055, 87041058, 4120521, 53002313, 90583890,
                 77288736, 107828578, 43116882, 88560063, 84684388, 57216934, 7890004, 98979031, 40078212, 16868929,
                 129909783, 28471833, 117512217, 6367312, 41122516, 9492800, 115227853, 10260429, 41656300, 123101320 >>
           [] chunk = 7 ->
              <<
                 126069159, 39980750, 99836799, 21234236, 55857695, 75825060, 33870931, 17500801, 1138201, 75258204,
                 117939519, 114155756, 5089070, 79266838, 109979900, 29204480, 129144448, 120905073, 76541762, 61854574,
                 23020634, 111120622, 116471602, 116754179, 130697899, 104692145, 94492386, 83612653, 68299878, 5022880,
                 50730118, 26898233, 46564275, 13290959, 27616875, 76958123, 90483285, 120335017, 58109581, 79377614,
                 26054163, 66082199, 14015581, 125890041, 89383306, 52353039, 39738201, 67660145, 67082010, 2308571 >>
           [] chunk = 8 ->
              <<
                 43667154, 82158477, 116987058, 53999108, 120752773, 37762388, 2428399, 21067525, 26958034, 115096633,
                 43988612, 108869241, 132479570, 75610286, 105052266, 18138605, 45512647, 57611673, 28592375, 35773782,
                 90523827, 12939273, 112434334, 50899886, 125116084, 73501187, 46150740, 122734681, 118432810, 112433217,
                 92222367, 71716564, 65028317, 103072662, 132272675, 71473680, 31492906, 8767473, 97370289, 5422457,
                 11365588, 17853241, 22775962, 22354304, 122270710, 72237154, 28584107, 35971685, 101886849, 44591622 >>
           [] chunk = 9 ->
              <<
                 80558665, 67899202, 112894852, 34264608, 49406619, 45479889, 45672311, 15289132, 39086254, 31566601,
                 116423117, 126700850, 81065162, 104628066, 128084978, 95980256, 119086706, 65604662, 18165829, 77840518,
                 73976848, 103381629, 13995553, 43047109, 5252986, 54572784, 9823854, 51033638, 116255148, 133041091,
                 105779199, 19774080, 111200189, 16779531, 45754483, 15393345, 82568871, 78840556, 104945324, 124307821,
                 50739620, 10288008, 76608999, 73856627, 30026394, 75962740, 10971394, 127808325, 35799041, 48974948 >>
           [] chunk = 10 ->
              <<
                 119556874, 39668399, 75758771, 71711751, 124160418, 15343247, 61440749, 120361011, 37202841, 14459367,
                 105631320, 6140693, 111101161, 39693274, 1661849, 82366322, 89981127, 1952620, 12305500, 55503652,
                 15448795, 110879947, 118790751, 106015659, 5371868, 25222476, 32163045, 105429653, 132628388, 78758006,
                 56507487, 21745934, 15509956, 60519930, 22465824, 91387514, 32402882, 21333204, 99858850, 113416517,
                 13802165, 58398513, 122240730, 129479009, 50771515, 108244901, 130226634, 72870219, 122033808, 109837092 >>
           [] chunk = 11 ->
              <<
                 39463177, 73847813, 34012132, 95510804, 64023211, 42206072, 13439106, 27865562, 87516696, 42602900,
                 5317735, 3659117, 1410111, 105610554, 131880141, 124232422, 39668030, 97506995, 80070356, 42983398,
                 60377111, 52515243, 42047845, 53493168, 8450991, 8615701, 122593401, 42593933, 130166134, 80724836,
                 130163883, 61184223, 14946796, 33562864, 28882751, 105379118, 82920635, 104410604, 131527049, 119616100,
                 72868575, 116449158, 92367272, 62937390, 88829913, 47758289, 34773933, 24591740, 72692625, 27895397 >>
           [] chunk = 12 ->
              <<
                 41247942, 26738305, 33068724, 48380603, 10921130, 110055456, 37686556, 12001052, 131986588, 101104427,
                 60116421, 12145152, 87511372, 77088788, 86364555, 45484211, 126263250, 30524632, 52409143, 129734599,
                 41175891, 5509940, 43921599, 25073596, 42511471, 106398661, 113700503, 77712954, 119923572, 123661700,
                 40642380, 32997177, 44873470, 13548960, 73044698, 82059611, 77710109, 108389901, 79988738, 12353926,
                 32896497, 29548761, 2734555, 108483272, 32716819, 53925147, 9707637, 35978916, 73981449, 116441402 >>
           [] chunk = 13 ->
              <<
                 9518233, 97867442, 10083750, 2887570, 85279541, 1331032, 39033407, 100761105, 106325238, 48209850,
                 66204376, 62925887, 115782785, 115308475, 20693635, 13547193, 67300739, 104387288, 106700878, 44035971,
                 10349124, 68353066, 127403218, 89288001, 23252162, 24100997, 104181006, 20073997, 132190486, 18996932,
                 110266593, 116171570, 42920682, 41020008, 14344886, 95203854, 69035995, 112030082, 123393999, 80784664,
                 39391493, 16951674, 119958275, 27748247, 19016054, 73214825, 122202781, 96989562, 4262747, 104655394 >>)
      [] key = 2 ->
        (CASE chunk = 0 ->
              <<
                 128316747, 115844572, 127215251, 113958270, 7590196, 12292302, 11391326, 48460313, 112138761, 22694018,
                 98780219, 108577047, 89889692, 114599711, 41357375, 33766938, 81328449, 28483526, 81443550, 4796195,
                 78007882, 91435315, 21257788, 134179985, 57803500, 85694172, 52818946, 107866686, 97041038, 115460008,
                 133522421, 68325876, 127425703, 49937087, 73038206, 125589096, 59707318, 67386331, 36002662, 120958063,
                 4821681, 116908066, 3683586, 48857189, 62396997, 125070327, 42743665, 121836157, 51004739, 56856101 >>
           [] chunk = 1 ->
              <<
                 119693954, 118657137, 70565342, 22077262, 75230427, 23815115, 31691947, 30950967, 3202177, 23718954,
                 43639945, 23298688, 18347213, 68473414, 68481085, 48276962, 134041039, 68952666, 90527132, 75147206,
                 24406620, 133570485, 119933141, 59812467, 106939306, 55656198, 98569726, 70513392, 121680939, 121933863,
                 102392756, 48889548, 105998133, 79656283, 47484484, 48571567, 131664446, 115288574, 129104158, 59830097,
                 21633837, 128168953, 101200713, 53668769, 95985928, 99131901, 61928958, 87900663, 71183139, 33541247 >>
           [] chunk = 2 ->
              <<
                 65768555, 37460468, 124128859, 66849210, 67221749, 69174770, 111605327, 106866335, 47502902, 88809937,
                 118494244, 61027295, 120755768, 121222318, 61876005, 47080197, 76196084, 97426662, 123524660, 74837503,
                 97143161, 61277253, 65311494, 88434088, 29770969, 126244727, 43576099, 109344989, 93894915, 112075346,
                 22289495, 117668168, 121861710, 82724570, 35988807, 103748163, 122323062, 64393122, 41548859, 40707799,
                 128494913, 107274710, 94785338, 111544037, 67679130, 75455690, 69490927, 68096262, 87431360, 82652379 >>
           [] chunk = 3 ->
              <<
                 78912603, 54582394, 41855036, 98103747, 27892923, 65619913, 68704935, 49203983, 125380075, 91836040,
                 83653223, 118389370, 10116710, 105264259, 110112223, 45829840, 97435264, 1130357, 121823206, 109395432,
                 25689639, 133824281, 99963045, 14248141, 7886485, 77096670, 87632087, 6564606, 36654825, 79416672,
                 30415955, 91600601, 117506435, 122922093, 14262778, 101249798, 70110330, 18320705, 114614290, 35680602,
                 32860791, 110695737, 28250004, 126645292, 118189683, 8104713, 56763045, 120523207, 96228889, 101926160 >>
           [] chunk = 4 ->
              <<
                 4277931, 7623085, 48634721, 48347706, 23069476, 33487550, 90297049, 3146424, 11127076, 15464979,
                 128119165, 9055212, 3401710, 5486092, 97901565, 123296436, 2838016, 50076269, 34318138, 17151298,
                 109166577, 125623135, 21088059, 98621446, 24661005, 70208140, 92810945, 259879, 51749776, 79115746,
                 5792970, 106590071, 132875758, 33262777, 20323262, 130300886, 4867942, 563192, 46197876, 125958507,
                 82576045, 84256020, 99651243, 100351696, 15182025, 38389845, 45260066, 65600394, 4135363, 41390816 >>
           [] chunk = 5 ->
              <<
                 60217221, 74021523, 102806744, 81222653, 99313960, 6143475, 121067096, 35425719, 101423257, 53935928,
                 115755512, 83429085, 94669822, 20596456, 63455391, 128685816, 30269798, 12543136, 88694899, 92260656,
                 42453862, 112528335, 13696799, 3248582, 60105632, 105818509, 117408707, 127251055, 17117654, 69563183,
                 78511424, 104832048, 52741198, 65353528, 69095648, 44018155, 19304463, 117365788, 128812939, 45775095,
                 34775333, 35143220, 81346403, 130282949, 56338635, 87686405, 2420377, 93881785, 74886797, 128714795 >>
           [] chunk = 6 ->
              <<
                 18866902, 90001213, 7621016, 33952645, 4503843, 17676732, 21631202, 22912411, 12867714, 60852964,
                 85238417, 31092217, 68217392, 122996852, 131998584, 95038700, 125376849, 4214615, 133482917, 33119640,
                 31202110, 95813670, 59686282, 9871400, 33659224, 10795026, 79354533, 30628917, 83773880, 106244549,
                 107402026, 83739713, 95227250, 48295433, 34441515, 91880171, 56776370, 37411464, 70624018, 100754268,
                 647571, 20282372, 4764650, 51640642, 54858331, 21506478, 14921651, 68730461, 97142721, 11787182 >>
           [] chunk = 7 ->
              <<
                 32328422, 13678295, 13391317, 2657751, 24395424, 100741839, 31074817, 14122967, 29172711, 3280295,
                 69892051, 89857384, 62331130, 60915752, 41570729, 71878068, 86135402, 51003100, 28514521, 91897081,
                 121676782, 102075923, 129267329, 28204582, 97835468, 108190195, 58214774, 57122924, 68652548, 2861874,
                 77990741, 79368698, 6876610, 118304477, 56105209, 124672252, 70472968, 78026269, 24323615, 123563032,
                 12587849, 89025560, 107730558, 64398035, 49148380, 2614948, 69687144, 128938937, 123674972, 15917011 >>
           [] chunk = 8 ->
              <<
                 81941310, 49188492, 38866872, 92663207, 132005963, 125150963, 49959423, 41375905, 2557532, 117352868,
                 91980841, 55331835, 13577717, 14095078, 41060204, 26627636, 112824990, 104064063, 90271052, 110782500,
                 2110180, 108992902, 60589031, 8051825, 55119781, 85536261, 65211420, 62188419, 27950424, 119392293,
                 79020024, 82350176, 9903834, 715145, 38166066, 3240280, 50050073, 41046651, 125529872, 97115250,
                 10274128, 29415865, 101332252, 65826467, 25818005, 15538167, 76712510, 50116160, 52583951, 96089783 >>
           [] chunk = 9 ->
              <<
                 62172924, 18745560, 101143863, 46296941, 53021714, 119143960, 16338254, 34113083, 16343706, 16503215,
                 10805965, 82750794, 114094581, 44893573, 86032435, 52493141, 128804534, 28455484, 92966251, 14146692,
                 3310986, 82970980, 88470912, 63132594, 104315620, 5795582, 97108979, 94731349, 66833653, 39024186,
                 47994194, 128795273, 61342295, 18987310, 107202663, 50319904, 36096850, 64988432, 70639292, 116204825,
                 64096956, 96575939, 128137241, 97698900, 107958026, 56232659, 125098151, 66051436, 112206768, 91298063 >>
           [] chunk = 10 ->
              <<
                 39830945, 52971955, 31088498, 20991588, 65604212, 80068346, 34816795, 73626624, 57398725, 93364338,
                 91152656, 93845587, 123289751, 11316016, 78638244, 97683780, 109770405, 77275999, 12877830, 9550915,
                 47789192, 23640357, 133915472, 73184116, 19663037, 108220348, 55937659, 120555007, 8971031, 107182320,
                 11562770, 122321484, 120192022, 91449887, 132692615, 108690933, 86984104, 5042803, 17248991, 130716613,
                 39779788, 52424647, 31098199, 95080262, 90024168, 118803710, 91415561, 44213286, 58900891, 23156656 >>
           [] chunk = 11 ->
              <<
                 70329387, 38518921, 15041816, 20940400, 72597462, 132430793, 127498616, 130038026, 101438712, 56869378,
                 12905633, 44136645, 69323639, 33366657, 96014640, 69010186, 34528922, 22758751, 120110995, 21140791,
                 61866448, 127155983, 94386095, 31466950, 54245891, 117369135, 133564495, 48124197, 105067749, 102587671,
                 76965867, 97834586, 19430032, 62633938, 59214614, 96484895, 3943975, 108680364, 79881583, 51439125,
                 118355543, 98885347, 24216165, 52728306, 68474060, 7190357, 64754460, 36768965, 54346728, 34053924 >>
           [] chunk = 12 ->
              <<
                 95356337, 98146375, 125717708, 55317233, 94676183, 86963488, 63417766, 48332711, 129114422, 73494664,
                 44389493, 95732078, 100074449, 122402348, 88380364, 10927129, 102221412, 110015590, 114363332, 97413782,
                 30198838, 71518520, 83382633, 25216248, 54052684, 109560629, 89519450, 51345747, 131162135, 118237337,
                 85205553, 122805179, 1557703, 42001284, 62350685, 70272816, 95506178, 121696988, 118543907, 62586747,
                 87252936, 23806038, 109531048, 12674165, 2300142, 54079232, 126598129, 29061788, 97906951, 76405792 >>
           [] chunk = 13 ->
              <<
                 81395529, 51779272, 121510400, 28923814, 118739702, 130538665, 13483161, 52342786, 109470826, 74856358,
                 102945096, 107587846, 26781543, 36830654, 99890965, 123666493, 78682115, 77876171, 25701946, 65740331,
                 107936473, 82131300, 18505018, 1138743, 82184696, 91093023, 58303910, 64700491, 34049844, 68912913,
                 75979934, 23295744, 62691339, 95658821, 27514297, 130511419, 129759120, 102026873, 9774455, 47008097,
                 407657, 121557950, 65152389, 71560357, 112365940, 89803477, 88369229, 8783837, 101290037, 79398042 >>)
      [] key = 3 ->
        (CASE chunk = 0 ->
              <<
                 31939071, 79542916, 73045210, 17505051, 49654541, 122936031, 81056775, 63626388, 83982757, 77960647,
                 8795134, 81282193, 1767377, 121979540, 112403197, 62979298, 34809906, 73925063, 31451369, 25735457,
                 133633187, 96253980, 63117699, 72608285, 112267955, 73770246, 63935045, 53302500, 85774273, 115564431,
                 20215394, 31128044, 85209555, 20350410, 116507068, 124263533, 70220193, 52336420, 99489140, 2032960,
                 90115322, 104318673, 8594154, 21394297, 101767940, 128513081, 79336043, 5743046, 40435460, 104700094 >>
           [] chunk = 1 ->
              <<
                 4162326, 110537762, 116169099, 36162506, 63451308, 79825928, 96478913, 123501330, 117952257, 52023943,
                 95848836, 105778179, 123627770, 57302230, 53011090, 97727413, 107496155, 77431504, 59676027, 129398472,
                 125572324, 18005188, 117959486, 49059218, 13080096, 4816622, 18249431, 66422127, 29123494, 34625653,
                 129584550, 90199847, 58540654, 104551930, 84107309, 114786434, 40403052, 56525596, 68081000, 111867405,
                 51790092, 77044027, 47098408, 71686102, 78527317, 54703906, 78416948, 31190384, 121359907, 45199834 >>
           [] chunk = 2 ->
              <<
                 91534092, 122907306, 124680968, 3846729, 114944138, 37538779, 133008378, 81311680, 90096809, 93357208,
                 21890860, 93766634, 115512814, 43807362, 129470842, 72714593, 121426239, 76766581, 76384316, 13968818,
                 95806898, 87981222, 28336715, 84956587, 111616526, 132616783, 76978209, 35847529, 38246343, 16701361,
                 8517534, 64693135, 114614220, 85732706, 132849514, 64895444, 11880697, 46181662, 107454085, 8940513,
                 55091253, 120406208, 20235386, 2701179, 39445415, 57329996, 103185500, 55726838, 117140807, 15960800 >>
           [] chunk = 3 ->
              <<
                 5931089, 81200173, 82481159, 102224856, 6031777, 50708097, 96427448, 78701933, 44419913, 73934028,
                 118233108, 123732952, 131618703, 37456610, 67836374, 31668881, 134017602, 4833561, 41563211, 970761,
                 10330833, 14511527, 80498801, 71884085, 4211451, 127358597, 26492546, 130382947, 54752261, 39139553,
                 81935510, 35349353, 20964673, 92574406, 5695639, 131518109, 116471330, 45609039, 42121619, 48344767,
                 128669090, 18565807, 120347619, 115656404, 50706013, 50566692, 61795134, 116754863, 69803014, 51833939 >>
           [] chunk = 4 ->
              <<
                 86421280, 116344293, 79946821, 91398358, 75062749, 13767091, 83231920, 130578191, 126248047, 108919301,
                 68051987, 36413354, 57873550, 85133017, 96678539, 96049076, 31894912, 125686299, 40411194, 58712975,
                 131237734, 34659429, 69944521, 40667050, 73609091, 45487470, 1537797, 105816782, 55728588, 132534091,
                 77841613, 42261994, 2691453, 50535197, 82651000, 79081507, 84849835, 17886984, 8063869, 85031339,
                 84200298, 44620796, 62579073, 47367564, 91171605, 123123102, 47322081, 81720331, 94885256, 37436600 >>
           [] chunk = 5 ->
              <<
                 99057285, 65699963, 2977280, 79104836, 8130480, 128156594, 90733910, 2852471, 129292686, 49548464,
                 33705061, 84284618, 61245177, 40082285, 79547072, 80725879, 42953080, 23813046, 48849225, 24863303,
                 41965945, 101751416, 49547007, 113258414, 79942965, 35451901, 40319538, 105669874, 50621604, 14075644,
                 103652782, 109126642, 3613302, 130375678, 76404515, 91769069, 98673274, 17638998, 41609736, 67110302,
                 29868523, 87741253, 107885239, 36155321, 32037124, 43994750, 25151642, 91008157, 58416161, 87179647 >>
           [] chunk = 6 ->
              <<
                 93692887, 13022125, 13668960, 80627828, 43213542, 127392631, 44795656, 90587221, 111875696, 30126560,
                 58845176, 108684817, 114827989, 128941729, 22720945, 10730484, 45192482, 99598933, 87272712, 29262112,
                 118769035, 76289566, 60545910, 36319301, 30202725, 105630283, 16229517, 4551177, 71085416, 128524350,
                 25609253, 42297494, 108283807, 112233536, 112538394, 77153086, 24640537, 115927556, 37392004, 45648746,
                 108344095, 111125090, 86159360, 11480182, 108214095, 83125339, 46343073, 79118767, 17406581, 56542223 >>
           [] chunk = 7 ->
              <<
                 39183911, 69578150, 106550343, 114081335, 36396424, 62373769, 46486884, 85118119, 55956135, 38976661,
                 56340734, 76280264, 54965128, 4770669, 123562502, 55467574, 20937678, 26785974, 625695, 64069171,
                 126603265, 111741570, 118108681, 83572074, 132461308, 68469931, 58297780, 75010462, 127528472, 132306375,
                 124470462, 96268834, 29808514, 4337668, 100062404, 61293376, 112299795, 101117013, 88984635, 100396797,
                 69661010, 129300806, 38794538, 72995794, 45777467, 119414064, 30530014, 115632750, 9135881, 115156273 >>
           [] chunk = 8 ->
              <<
                 79010985, 130320600, 38521988, 16105633, 108742113, 32820790, 6050107, 4717013, 121280384, 107770616,
                 93107590, 68759443, 123997692, 26637983, 120335207, 118589437, 120752312, 57698421, 77437375, 6624565,
                 1764224, 64565146, 100032240, 16215372, 23061503, 67536637, 40250295, 32084238, 88972409, 2663559,
                 70459493, 72074430, 55532645, 7146640, 126036145, 122552162, 82163249, 15245430, 45815578, 16831662,
                 33886599, 130458341, 115650680, 72609203, 64048363, 108924586, 105001899, 8236690, 47223384, 29635700 >>
           [] chunk = 9 ->
              <<
                 26485677, 16404228, 71757768, 119136703, 109630496, 16000164, 22991800, 32139320, 106256406, 36743289,
                 123717406, 119404556, 108186339, 17245005, 110528132, 123581389, 1007266, 65431322, 84370231, 76624270,
                 115770114, 53724345, 6701739, 101534226, 36426293, 33320711, 36049017, 82958514, 70768468, 69749198,
                 56771952, 6841461, 63471565, 43367917, 104219751, 109994922, 242752, 115027605, 7359639, 104051692,
                 17027302, 6198826, 16727050, 6688513, 9182732, 64802057, 130821017, 4430673, 114682194, 95659559 >>
           [] chunk = 10 ->
              <<
                 11559905, 69176427, 67393406, 65765551, 42398876, 21077774, 42222186, 9633496, 47149286, 51780810,
                 86827275, 52296063, 78733880, 40818056, 48430398, 35558365, 25646591, 132610169, 44127608, 57539094,
                 16610118, 17127537, 74561430, 468274, 96105640, 97044714, 51034688, 106742381, 10724161, 76065770,
                 23965400, 5766202, 50100065, 61849924, 81125874, 87277920, 105041724, 72655232, 51038261, 85453262,
                 107529997, 5830329, 83607780, 118988981, 57927512, 7122232, 49985385, 84214146, 66592340, 102011327 >>
           [] chunk = 11 ->
              <<
                 94339045, 42271686, 56440419, 127545634, 93163640, 56142323, 61852886, 2405873, 32894523, 29346574,
                 71918876, 36250968, 93304023, 79175312, 9607438, 107795269, 57027575, 30123955, 57157298, 17497413,
                 118067213, 3770769, 125692764, 43696582, 50229064, 130031668, 120507950, 75037802, 106155068, 116816552,
                 35189167, 16300873, 62296247, 92684775, 16528382, 126038763, 109148769, 98183956, 88891005, 114057120,
                 119097228, 71159497, 106363440, 50523518, 89598598, 14579996, 98480268, 42733583, 75677854, 71399983 >>
           [] chunk = 12 ->
              <<
                 13842309, 108933899, 78887646, 96178009, 657838, 63558487, 19262708, 31671394, 103925326, 52166879,
                 5947571, 70760444, 12321036, 75741970, 13327765, 88477259, 118174403, 50433751, 24045589, 109984243,
                 3152421, 45833197, 112948992, 114393849, 16278392, 3418182, 113272146, 15448014, 90400306, 64682357,
                 112230441, 93462409, 127830483, 38184248, 77722321, 40182386, 107206041, 11916544, 4867978, 133713792,
                 103001172, 75650123, 68628979, 71002099, 95986872, 31984787, 14326896, 74418680, 100524370, 13410157 >>
           [] chunk = 13 ->
              <<
                 125434834, 74265298, 8206004, 73835590, 43519677, 116691930, 75695758, 24215857, 111140242, 10380098,
                 32497609, 133996225, 24128648, 86701012, 33549879, 60953785, 82675567, 93967624, 101138870, 126516807,
                 52845539, 33943131, 49321169, 80457291, 53236073, 125998876, 47014387, 74710783, 56132222, 129696519,
                 11175033, 50375214, 67150419, 31576611, 130601426, 124753966, 55409288, 113226440, 100315537, 129800790,
                 21558117, 55736735, 92722721, 76290015, 101484174, 77822799, 90443395, 124008064, 69402923, 92014222 >>)
      [] key = 4 ->
        (CASE chunk = 0 ->
              <<
                 31681838, 40708047, 13846710, 96800094, 53158037, 64273970, 20800026, 12093050, 8927505, 2659816,
                 53900633, 73739467, 123205840, 38839355, 107434895, 132878882, 102698386, 7898318, 29786695, 69838754,
                 72031971, 48351253, 37135715, 104655676, 23174640, 110980838, 14251680, 35127407, 28776338, 126561862,
                 124483672, 3441299, 111255765, 85991773, 108267045, 34930720, 107434290, 36473366, 25962489, 22121532,
                 41587357, 38874915, 84151240, 116409941, 98233244, 128972896, 114708960, 113887671, 118118412, 49981755 >>
           [] chunk = 1 ->
              <<
                 11639126, 113385690, 81316063, 45285393, 90154243, 52067331, 67907966, 33403241, 23862593, 33195026,
                 63563890, 37580641, 11991844, 126779084, 125438326, 109774382, 116163318, 126460912, 73502844, 112804991,
                 40298301, 967888, 121986505, 39183747, 76821771, 94611007, 118422615, 41844012, 113822550, 102704452,
                 68232585, 26189257, 55558897, 56872222, 80384671, 38682028, 57853614, 60582177, 21652085, 31302955,
                 40951385, 34850323, 109064294, 107023988, 5803369, 10881764, 6217233, 62098481, 84067373, 133878423 >>
           [] chunk = 2 ->
              <<
                 37639108, 69641832, 71755722, 86972830, 63248773, 94070349, 46015644, 19469993, 133852504, 90433061,
                 26249430, 8917220, 55404360, 122612165, 27201989, 85230821, 84914856, 59210413, 37085007, 24656286,
                 47758795, 58508773, 100252949, 79023194, 43039451, 85152046, 74964491, 26670699, 121375118, 43424027,
                 13553230, 112665896, 8269186, 95047960, 30718336, 37242572, 102698337, 78141623, 82601894, 115708975,
                 31865593, 16394078, 44435059, 125437305, 23828974, 39047192, 61608454, 3446185, 5746020, 47927009 >>
           [] chunk = 3 ->
              <<
                 93588932, 11087771, 120249390, 129449603, 128142711, 38344142, 98633649, 90625584, 128831247, 43905593,
                 2441088, 43326860, 38788449, 43174637, 129655232, 20523182, 104050875, 87499570, 55086670, 115611538,
                 126608705, 116703191, 83283505, 91273922, 109780411, 10436272, 39380857, 82910269, 25691313, 120001879,
                 59611762, 39190950, 18312348, 33560790, 51222133, 80370872, 129092439, 21327822, 44467303, 76918846,
                 1261172, 48764634, 6012577, 61040254, 22758903, 49015082, 105192563, 107957905, 48684026, 133839940 >>
           [] chunk = 4 ->
              <<
                 38968001, 76699493, 13032838, 58965440, 131768073, 27814842, 56901943, 123014548, 27906126, 15249581,
                 7964416, 8349576, 7418297, 98934762, 22638540, 79931332, 90842197, 130274251, 20084412, 81405399,
                 5488480, 73313755, 65856292, 78203982, 33428086, 43142000, 133900508, 4774655, 16411238, 112051730,
                 71033603, 39313367, 103856620, 133802425, 54938165, 87457905, 132561130, 26878633, 64124125, 27081479,
                 32462190, 58896643, 55112817, 66026889, 4948498, 29401937, 56535320, 59525845, 33364644, 86897342 >>
           [] chunk = 5 ->
              <<
                 119359881, 57423300, 111541256, 28953418, 66918237, 25194022, 4248039, 4940013, 34144139, 34009078,
                 32532917, 70555191, 27926077, 103658444, 31066928, 55986873, 116730435, 35123067, 19018889, 43622650,
                 6881842, 119591417, 124558504, 42213717, 75879214, 15684147, 132952150, 76465048, 54084652, 129218817,
                 120923751, 87639808, 87774832, 116889965, 106147126, 96281418, 99955470, 5436255, 66342215, 52005704,
                 12469983, 57728060, 28309376, 124812783, 117280286, 76813455, 120763991, 126720184, 124094674, 22207071 >>
           [] chunk = 6 ->
              <<
                 45176289, 39755919, 88168833, 63247293, 107307698, 120889574, 86234074, 42283570, 109364117, 56369990,
                 70870167, 28888755, 87876666, 107561721, 92067972, 107522408, 36010488, 45436809, 123856114, 52637757,
                 128349602, 66624397, 9983190, 115240618, 130337262, 37591827, 129087096, 84270077, 89704671, 25670156,
                 5978590, 52989129, 120657673, 83154029, 17130582, 102920874, 129994562, 36163833, 89548714, 114932378,
                 8117905, 116780148, 22450010, 92322031, 85253730, 62354371, 76397527, 63375365, 100192803, 54187203 >>
           [] chunk = 7 ->
              <<
                 124484385, 52404275, 29332138, 107107524, 439298, 28346146, 123797331, 21037621, 1759631, 81874022,
                 117631582, 34539463, 15554488, 53121116, 108699225, 103316696, 105088418, 51148310, 117826773, 29841350,
                 73901408, 7167334, 117938119, 127635519, 27067615, 21730048, 90124760, 81641682, 44378167, 109847705,
                 119688662, 75480293, 103827325, 105271984, 63285016, 122840741, 70653372, 59007795, 3542470, 10601744,
                 4587984, 93338628, 79790673, 15155392, 65609816, 75270143, 116060730, 34487442, 81621175, 103899665 >>
           [] chunk = 8 ->
              <<
                 18624282, 5553427, 48663279, 10695799, 103022774, 117987004, 70194031, 121471834, 1416167, 39854403,
                 112432709, 46561823, 111073421, 10030718, 11427432, 128831303, 72931051, 60903949, 51158164, 27561973,
                 105681358, 131072663, 41764446, 52161119, 31366762, 101832556, 65317325, 114819864, 129691719, 53694871,
                 12766746, 10360837, 15361369, 122910608, 83344072, 107153203, 118828711, 49107909, 68783182, 134162109,
                 58244219, 55820187, 115137866, 95460278, 104231640, 59624799, 8981564, 84368254, 118289430, 126260742 >>
           [] chunk = 9 ->
              <<
                 26286900, 85488228, 40574752, 124788895, 112265341, 64247031, 56702218, 15860842, 107152571, 74932571,
                 22464956, 49875702, 117344835, 21853414, 23669422, 94855059, 20039641, 43829443, 66337813, 115403274,
                 45444097, 34710191, 72727624, 130695922, 121342535, 654859, 95363267, 22643582, 746535, 86987089,
                 41851388, 16234016, 73141746, 14876515, 65297822, 105524692, 96044415, 80664372, 64994861, 70640064,
                 10158178, 69889129, 32942557, 55187224, 113758933, 39386326, 47887619, 30763908, 102900696, 24214670 >>
           [] chunk = 10 ->
              <<
                 132312474, 115957295, 84114325, 227163, 90829613, 7102721, 81810386, 121820988, 42046732, 73025821,
                 122512670, 122024266, 62683604, 105019081, 122327128, 76281183, 41023702, 125726689, 116437380, 68002897,
                 105609136, 59156676, 82275401, 82873994, 59333026, 52587331, 18880081, 33782095, 103487524, 80139809,
                 48610916, 132324717, 88863769, 45639931, 17885149, 58169958, 11081030, 81285046, 19319067, 90648974,
                 108585129, 83499187, 23846290, 38301214, 121052753, 126100769, 49927405, 26506273, 77307059, 106554775 >>
           [] chunk = 11 ->
              <<
                 47035375, 90592495, 83326395, 118546203, 12544957, 10342991, 54029003, 86662007, 125653036, 121371133,
                 24115654, 44244562, 87812296, 49914713, 43845243, 23437474, 40343183, 118552408, 3110008, 81036549,
                 2697775, 70321341, 127425259, 101272583, 111370374, 11906210, 107522421, 48186767, 108347278, 109105015,
                 127954113, 13206735, 21268912, 24481512, 78405809, 132477916, 66470133, 88718938, 77022786, 133213395,
                 125884363, 10321092, 102039282, 124246254, 129986298, 132389400, 15679899, 23088275, 87450375, 64307831 >>
           [] chunk = 12 ->
              <<
                 90650185, 118960685, 100019276, 29819428, 82928700, 105585991, 111570214, 88619116, 40649860, 114457476,
                 124530131, 92309494, 54507350, 118250973, 80400999, 31867806, 120376478, 65744638, 94434182, 29678155,
                 41564085, 49340747, 30919550, 100082548, 43837852, 72105336, 84127232, 71103287, 133741143, 60650835,
                 120664125, 107756765, 53716205, 67952397, 53775679, 130125820, 109721824, 42027106, 38087135, 58826368,
                 55239244, 78938069, 1769434, 33726697, 24681607, 120444389, 72504121, 61543535, 93051723, 75314207 >>
           [] chunk = 13 ->
              <<
                 82511677, 110864034, 48895748, 54250293, 127649933, 52163217, 83648416, 3747800, 20945017, 68626397,
                 9088742, 61497950, 130699887, 129528271, 132582802, 84634414, 123475495, 46627781, 81041149, 106869378,
                 41907721, 122172238, 12259356, 101410055, 34615082, 64888088, 29818016, 85891135, 124586841, 64001072,
                 119797890, 81017669, 104410512, 8896951, 19961805, 124017180, 31990723, 9271608, 40159767, 17802997,
                 127228785, 6292734, 21920387, 53406212, 106091377, 78087757, 91361519, 83305092, 73435250, 95702006 >>)
      [] key = 5 ->
        (CASE chunk = 0 ->
              <<
                 83604450, 34285249, 99560964, 48121821, 106729073, 92670206, 126493535, 112945689, 99307505, 87514212,
                 123792365, 71140745, 3893015, 112789615, 62494814, 104147395, 126615195, 33427281, 87103890, 6959625,
                 120916817, 21052228, 15194247, 49901259, 62957381, 116560776, 33094445, 51104462, 72982347, 13686772,
                 77033082, 33464602, 1760156, 98137817, 29088981, 54781107, 37511488, 24437781, 122989793, 116428388,
                 102773930, 52269391, 21421714, 102263899, 106991258, 9654514, 18625047, 82936648, 82873074, 59704835 >>
           [] chunk = 1 ->
              <<
                 17005283, 17749067, 238217, 130504901, 116957965, 713117, 28112759, 103829989, 28921392, 128866077,
                 131858329, 22260874, 117092588, 22345168, 38829882, 42097573, 129047391, 26694473, 72373348, 117590692,
                 90976866, 83984085, 27485041, 24383155, 126295660, 129997489, 92696392, 26424657, 129730065, 129533044,
                 119955977, 51435386, 40102767, 2895104, 48478092, 55687836, 22274244, 125599964, 19555779, 35408239,
                 8742904, 44540755, 40447733, 109709612, 80948053, 78670548, 454074, 79990940, 90990794, 94982685 >>
           [] chunk = 2 ->
              <<
                 45351749, 8861383, 41601849, 47694451, 109859636, 41079249, 64524526, 93471884, 42385033, 24799844,
                 64588038, 63423023, 94579090, 23638437, 7650535, 34384143, 130875647, 126032031, 3068963, 127402215,
                 100635784, 48002173, 113397993, 54263433, 2424983, 73694383, 105728445, 56214040, 49148448, 50514910,
                 77647482, 112908529, 1218480, 60776774, 6271607, 94993705, 24282602, 83713345, 128202075, 128096658,
                 26376692, 15974668, 101433224, 33029209, 124776224, 109990510, 126438982, 62036153, 46222144, 68786050 >>
           [] chunk = 3 ->
              <<
                 47619537, 119817654, 70424286, 33674416, 104099674, 62122643, 14502610, 79156699, 100448286, 104822320,
                 107001953, 49297797, 115386218, 39710168, 4916607, 58113146, 126943151, 131310772, 12237954, 27982167,
                 45733420, 68837595, 81983884, 48670768, 123223576, 19890481, 45628595, 37000656, 124043704, 94302279,
                 73167994, 12357875, 41936378, 92068775, 42520174, 41093585, 23820663, 107209580, 10495320, 84128446,
                 19980730, 96789106, 92499447, 41514023, 133778408, 64933701, 21680117, 96654054, 6516561, 10866029 >>
           [] chunk = 4 ->
              <<
                 132432512, 80617772, 71609283, 123964408, 54477368, 4271678, 31854779, 99396078, 79719991, 46148470,
                 110903506, 33582464, 61158334, 87371236, 56607304, 19545996, 7476897, 131405949, 122952746, 85674447,
                 4391767, 107597578, 66245065, 44853590, 112532073, 27791108, 17525053, 131707921, 98202336, 75705188,
                 127479805, 17821025, 84610760, 120325658, 105764851, 55542304, 14311718, 22658752, 58325010, 50062894,
                 20031371, 7888058, 113378264, 56458126, 39569121, 18951866, 60821422, 123749193, 134123768, 83268944 >>
           [] chunk = 5 ->
              <<
                 114387417, 22721706, 130997518, 70087739, 60873106, 128866647, 65519591, 92454411, 97912506, 42641274,
                 64295989, 36780426, 39060394, 63093180, 54195697, 121045663, 19663751, 15107594, 50600183, 110334354,
                 132659151, 71370525, 128824307, 24078154, 84149813, 125781405, 67017924, 116474001, 45429850, 24175337,
                 11963821, 66016603, 36548847, 69146137, 104960809, 73564807, 116418686, 67487961, 48496386, 8470318,
                 105498164, 106723465, 104005061, 47741085, 93227197, 78850809, 89123047, 4606155, 101956985, 41030236 >>
           [] chunk = 6 ->
              <<
                 48778985, 75069898, 94552305, 89698720, 37695324, 112103006, 65187567, 35548698, 103313756, 131661768,
                 92728740, 96097919, 39440153, 128430987, 126909244, 45643877, 87200204, 23977915, 77934976, 114329613,
                 1554329, 63659984, 73415874, 103846540, 33647349, 43742219, 90146387, 36733393, 62134619, 38765638,
                 109612889, 67155722, 86897515, 90414180, 107055542, 47858100, 46692268, 36758967, 86444682, 46383208,
                 99029510, 125831157, 111157601, 54823784, 46982264, 123793470, 113129383, 23148936, 116757511, 116362940 >>
           [] chunk = 7 ->
              <<
                 92387022, 60368995, 131012902, 48892120, 128381468, 44874255, 69543497, 19039886, 71046822, 131560864,
                 22303311, 26662780, 112289273, 48590698, 125813240, 114602450, 64053925, 37964584, 92801571, 10581286,
                 96594683, 90041076, 98026377, 55919584, 23062196, 82782870, 104739706, 125657967, 77959736, 69317441,
                 89329444, 125685654, 56477750, 40623155, 83716575, 74250296, 103979110, 116383968, 85478797, 36333553,
                 96692393, 133683114, 3707364, 26252834, 21477932, 78711747, 59199200, 83761501, 87257235, 24258881 >>
           [] chunk = 8 ->
              <<
                 29398804, 101870873, 92067621, 24230748, 84673288, 96430382, 5618582, 132401546, 63295134, 131501155,
                 30365767, 22245982, 7266951, 119696693, 17921675, 14875194, 42594108, 129920145, 24366854, 64781779,
                 25952353, 73594364, 4785875, 55766093, 62455557, 47123822, 51042847, 88922465, 82113594, 9660587,
                 79210525, 27429574, 31923204, 96370372, 121223079, 50198896, 88666, 47046049, 54408611, 127789585,
                 37383404, 114870876, 55034947, 116286406, 15445029, 92456599, 111584600, 73449717, 50181277, 129435640 >>
           [] chunk = 9 ->
              <<
                 4840174, 73810748, 82351178, 40450867, 12726748, 39631989, 73178305, 68806409, 45549914, 127654871,
                 77966573, 39351539, 128620916, 47193392, 109860163, 17335528, 56250908, 54927637, 109117650, 75688078,
                 86207582, 72260901, 49585762, 62743066, 19074015, 21042044, 79985396, 51371347, 75679892, 64026057,
                 128474899, 26730451, 129922347, 17848681, 81686237, 12191157, 47126002, 110224202, 119919110, 88806304,
                 127168, 51251552, 14484554, 43760639, 75942002, 123007343, 82566456, 72400211, 18884499, 43679790 >>
           [] chunk = 10 ->
              <<
                 84484193, 117641797, 119625815, 75738318, 50445505, 57606368, 57939617, 131087828, 30378285, 66224396,
                 39123740, 64367436, 130520650, 95066220, 50973280, 51525050, 129001905, 114751399, 122641082, 21344293,
                 79968261, 79718686, 34873074, 99458855, 131664982, 40373055, 66612997, 33697814, 55766354, 2640239,
                 42835929, 126859383, 132107357, 41270398, 66002200, 124761356, 38439736, 19232248, 64013226, 3191016,
                 16359263, 88591598, 83441365, 128960544, 59521218, 32950493, 39339632, 5365555, 104918843, 18312697 >>
           [] chunk = 11 ->
              <<
                 110971929, 52665540, 1772116, 64464317, 71479617, 75204259, 36747152, 32678222, 125527550, 63656517,
                 104945813, 4934238, 32971951, 65782633, 35928543, 113268216, 20772294, 96832223, 132717872, 38349846,
                 39351061, 66070550, 81609423, 133208853, 63703951, 69554184, 86553875, 115894538, 81047874, 118200156,
                 99787288, 120125239, 15861716, 2170671, 102058983, 16915775, 40357896, 37896032, 71604878, 95029815,
                 45113483, 82352175, 39838796, 98150200, 71117613, 3572316, 62322222, 46944629, 48457885, 91504475 >>
           [] chunk = 12 ->
              <<
                 99994513, 109070420, 79296464, 17781112, 4889406, 380661, 33879634, 74253034, 61151438, 92037509,
                 123020375, 14441912, 119177366, 92264036, 73228157, 25659652, 1954279, 57669402, 104472752, 108384985,
                 57409154, 79845063, 77261332, 92478341, 95050473, 127945442, 84857191, 87089111, 64676712, 115251807,
                 122368357, 112904006, 51737330, 63850020, 52595322, 91580540, 114340268, 96584344, 26369509, 120647936,
                 39788657, 62422606, 111403873, 101763442, 8865655, 40755230, 112243418, 433047, 93230517, 104555304 >>
           [] chunk = 13 ->
              <<
                 58092130, 78129831, 38434733, 87026047, 104787693, 63411121, 122228812, 41735091, 19150746, 22206242,
                 64211453, 93312562, 73698328, 119277956, 66797736, 130583359, 44390769, 72201724, 20606145, 57117797,
                 78631756, 72666313, 108961044, 6516818, 9183084, 98332507, 30872662, 35863625, 110004009, 11434839,
                 106266954, 8444655, 89067072, 126455401, 3429711, 44701428, 96985540, 57624526, 131357010, 9221376,
                 133994185, 54392853, 94119933, 65322575, 6562297, 16559115, 113019734, 16422410, 29424835, 82484243 >>)
      [] key = 6 ->
        (CASE chunk = 0 ->
              <<
                 106480303, 77016831, 110320804, 10813867, 65100245, 102303011, 35114241, 4942265, 60628, 19539150,
                 88962001, 78716606, 63116457, 129589601, 101969319, 98628054, 50084737, 42867218, 103366419, 2937999,
                 36600917, 65611164, 107631274, 26589460, 97955430, 117105945, 55567003, 122214998, 72250103, 72376968,
                 91543435, 12644680, 25901991, 75620694, 74304969, 93888483, 108061920, 97829683, 35637632, 88972941,
                 107825866, 81879126, 92031738, 11825796, 113317655, 57002178, 45041055, 132907267, 12500313, 48605686 >>
           [] chunk = 1 ->
              <<
                 107412128, 55021868, 108015946, 33619751, 59755398, 93901535, 12586988, 101410734, 26462641, 94052696,
                 85217365, 106892456, 39081996, 13093063, 127691123, 6131481, 78996500, 121166904, 26960894, 111119419,
                 87966834, 122497277, 48369326, 65324045, 125189869, 111766202, 122072527, 26001063, 69075309, 77293680,
                 86512963, 130195564, 93671941, 119777024, 108113040, 67604208, 131046834, 122982855, 3814733, 85024038,
                 48503122, 32869345, 80765147, 57671828, 40845730, 47966680, 79075279, 16050383, 12037647, 67129956 >>
           [] chunk = 2 ->
              <<
                 118122182, 91082352, 70499631, 26726165, 15679904, 81632348, 88951614, 35954867, 41913600, 96502994,
                 26336757, 50976792, 64927058, 29895486, 18536212, 80174046, 28170324, 111938096, 116170704, 117572672,
                 93714004, 70080516, 1680768, 25333148, 104429111, 22701962, 2289586, 86971371, 44682700, 74859371,
                 121391593, 90107878, 83250593, 83029548, 41087338, 50282276, 50654414, 70782917, 52232920, 38808948,
                 17023468, 91097537, 134201433, 65599962, 7223885, 24877113, 56759154, 79715930, 100168439, 133993255 >>
           [] chunk = 3 ->
              <<
                 53387020, 12882427, 131664038, 59224023, 32925090, 108134514, 131433520, 11953042, 119756706, 80957642,
                 89955017, 116833182, 119388353, 59876193, 60021384, 105214384, 111569763, 51005226, 106850577, 10263736,
                 69348510, 57233228, 63207128, 40729946, 94713823, 109593126, 54903608, 126261993, 11533447, 25789316,
                 100195666, 91292175, 35677718, 60580268, 65453153, 96989398, 105230627, 129530022, 23102643, 2488521,
                 2935792, 72201391, 16575260, 33707111, 79110017, 107612831, 48459193, 25173752, 34401642, 67476156 >>
           [] chunk = 4 ->
              <<
                 60603766, 44216706, 124499976, 69373460, 34193764, 131742918, 55105987, 124410426, 118016824, 56605372,
                 82165027, 65149900, 35961962, 80864203, 63714353, 88085424, 64228415, 66038090, 19083749, 96807877,
                 50664254, 66659278, 41026806, 85156937, 108010506, 62714739, 43404704, 49187713, 88482118, 21881660,
                 130294017, 122553975, 123893482, 83140201, 50471609, 93207812, 80937507, 35675613, 42964840, 86717940,
                 53456447, 130864247, 65498082, 97885745, 106493581, 21231524, 125709983, 111090688, 39029141, 75143066 >>
           [] chunk = 5 ->
              <<
                 831117, 83722869, 60311713, 129473937, 7664509, 24505233, 4041652, 81867655, 103827195, 76473232,
                 15051398, 91549387, 96436402, 49781818, 48588337, 131882902, 125955346, 66765361, 114553707, 79154819,
                 8358388, 123382819, 25854581, 20721649, 127156720, 36138557, 82333508, 1989595, 56654860, 108208301,
                 104997368, 107395202, 109187977, 70445330, 65994055, 10176293, 62934575, 31147449, 13442579, 49783161,
                 48583059, 129112421, 19456017, 91390356, 83965746, 32663234, 81413811, 42724945, 19364435, 5057368 >>
           [] chunk = 6 ->
              <<
                 84289727, 89678652, 13062367, 95822787, 14150772, 6075391, 86646960, 64139389, 62104327, 97186368,
                 120740309, 9260767, 84449443, 4140106, 94136350, 74011290, 17046539, 82760974, 111758180, 124041792,
                 11213029, 21616916, 82962893, 84715301, 122325815, 35592553, 121833378, 112529384, 119895976, 87815855,
                 60664245, 67067584, 93120312, 2722338, 106210847, 85556988, 18397493, 109823529, 126621249, 25339507,
                 121973625, 125375380, 59174803, 64312264, 104488235, 58985884, 60005882, 74972676, 37098728, 64079814 >>
           [] chunk = 7 ->
              <<
                 95627288, 77754911, 8545662, 111592251, 107400859, 39159430, 131275262, 48780513, 38395755, 48337418,
                 126120556, 4545710, 11231575, 67431710, 115169385, 37015086, 37555183, 36791070, 129683928, 63498413,
                 57807134, 59623921, 123770623, 49855828, 4283306, 95802428, 11494866, 33497499, 109571543, 81157540,
                 85707769, 32004422, 71873743, 100055143, 4390630, 99192905, 23259013, 45148291, 49726146, 4290073,
                 6988162, 127761175, 133283589, 99300582, 102703101, 100828640, 127479588, 28075543, 94044497, 58120771 >>
           [] chunk = 8 ->
              <<
                 46100851, 118800798, 10414599, 21157271, 98182935, 90707009, 15305520, 53640498, 73433946, 18212358,
                 62283875, 99726555, 66374792, 85819259, 10090693, 17186764, 9928228, 47030127, 69829030, 131331617,
                 4090381, 24921444, 70521086, 95037705, 20172979, 24656698, 37809946, 99186336, 20267105, 68091444,
                 76294297, 114094362, 52117981, 106928176, 29941591, 126846323, 29742083, 93357265, 75706472, 95994692,
                 122216030, 16891553, 56254822, 92725151, 21902171, 101641883, 42479746, 133335278, 32257025, 75298022 >>
           [] chunk = 9 ->
              <<
                 76821296, 639473, 105551259, 108056672, 76358527, 51900044, 25252558, 102037440, 43656079, 114748189,
                 51147830, 70638525, 59182430, 1298478, 53353051, 113396553, 133884939, 71241500, 73961865, 114089595,
                 88862218, 18288760, 96149878, 31365761, 86589681, 73004477, 108079877, 99707517, 49959066, 36493742,
                 89464080, 24850347, 130537849, 20053466, 22028964, 92643254, 83948421, 18029728, 51633392, 9969025,
                 8196306, 1644591, 5351454, 63378350, 101866639, 7949326, 15380315, 87357978, 95434826, 72514635 >>
           [] chunk = 10 ->
              <<
                 13441405, 90426608, 49340502, 79942716, 4319247, 8036569, 72847464, 30170588, 105549867, 54605713,
                 30276604, 102494572, 75874164, 92299226, 123786170, 127652358, 39392655, 12443726, 63223110, 10374934,
                 97193543, 76961153, 115994041, 7893131, 22630725, 119956372, 88766033, 58778702, 16113964, 128588528,
                 15062400, 94214552, 131969411, 23864184, 6712604, 91799487, 123453577, 4078590, 100678496, 112845525,
                 90722710, 133302259, 97903791, 57086776, 87370999, 95069421, 38524039, 34318038, 59508440, 31131063 >>
           [] chunk = 11 ->
              <<
                 27130996, 109496871, 115329255, 87815934, 104530240, 71886741, 105702250, 86532788, 28716996, 37287962,
                 79485239, 1760214, 34217904, 70738048, 106103829, 98225805, 99961990, 130704686, 133561828, 130024802,
                 95052246, 116953641, 91789963, 44422995, 104289327, 69446261, 12573367, 78501009, 79908467, 86624007,
                 4394447, 48593533, 49276759, 92784267, 15719495, 30367004, 127301756, 102387662, 3759895, 48367438,
                 123657037, 92909463, 127222737, 45714745, 58468978, 92030246, 111731522, 130351556, 6945809, 46171984 >>
           [] chunk = 12 ->
              <<
                 18709863, 4079867, 1319124, 45123224, 9138582, 65087412, 346326, 62227366, 111176741, 35392835,
                 11746894, 90880159, 79287080, 82706172, 36672207, 30899564, 17767731, 16902532, 56266290, 73251964,
                 24406534, 32610209, 131155298, 88976493, 51526749, 131799523, 79701063, 57591891, 75637583, 69466958,
                 84137008, 111474438, 64482944, 124626068, 36259225, 33979019, 18357384, 40138720, 119191824, 4410608,
                 25841132, 101745739, 60185892, 14056181, 108497654, 23634020, 77317285, 14554194, 127248581, 124609672 >>
           [] chunk = 13 ->
              <<
                 108653585, 347822, 68929962, 21537431, 16094289, 20399565, 79550383, 52764980, 63578327, 65257597,
                 115663029, 116710399, 71242236, 102975800, 93182025, 72676845, 108933289, 106755498, 63142140, 28909004,
                 112997255, 86465628, 120708627, 52124088, 20716521, 103412755, 123366170, 61482799, 116735058, 122200337,
                 114755699, 1431281, 45333882, 56048371, 33799058, 42864002, 17828245, 38357027, 49793160, 78967878,
                 114760004, 91078273, 48705450, 29971409, 718880, 104693783, 40926122, 23709240, 11077051, 54713707 >>)
      [] key = 7 ->
        (CASE chunk = 0 ->
              <<
                 43464097, 127220335, 20246633, 52992312, 87366946, 6480894, 9722233, 110229569, 71924865, 12633920,
                 49081935, 78220482, 7784483, 122098412, 68106871, 28816302, 5032582, 11535642, 58202938, 56126116,
                 9375836, 32301241, 12175294, 73960310, 56978001, 7933677, 110978213, 75893910, 16616417, 127164546,
                 29962626, 84641177, 84212661, 78248519, 127199341, 8302983, 77457446, 78590039, 53241552, 6655764,
                 131030742, 29673100, 6252221, 74714297, 115221686, 17874421, 38870700, 56255890, 19361589, 72569631 >>
           [] chunk = 1 ->
              <<
                 15809806, 76626738, 41403729, 75196458, 109538625, 91536852, 24256684, 13831903, 78061052, 76665755,
                 85753514, 25215622, 49982352, 13076910, 73517017, 95577889, 8427393, 75748230, 7999533, 83082061,
                 27643310, 66627625, 91321738, 71366283, 57390467, 104317880, 42164119, 62492024, 78592782, 123942204,
                 60825377, 48530762, 40234045, 33343251, 106619809, 24127884, 93817444, 104666961, 32762079, 10986393,
                 77097845, 40298754, 70490681, 66453392, 117458966, 46100526, 97904489, 60241505, 38646352, 81733095 >>
           [] chunk = 2 ->
              <<
                 131556841, 9824854, 15846520, 68710461, 56119495, 22140838, 101621735, 45909953, 20399018, 125261407,
                 65627516, 56599395, 5262308, 129120015, 89686414, 10418044, 102618964, 74903659, 76910239, 105910426,
                 117504642, 109837526, 42110478, 45650450, 93320964, 47000147, 79774974, 66662562, 77832216, 106957030,
                 61230843, 9229206, 112738567, 12562241, 126792950, 36230636, 63632401, 93555402, 89141000, 8724149,
                 8142912, 98134544, 94152665, 41554798, 86856164, 77570629, 133291080, 91434105, 110316877, 59812891 >>
           [] chunk = 3 ->
              <<
                 38197765, 96184154, 51780050, 119056532, 89745048, 46574257, 3028344, 126251713, 61967692, 47709585,
                 22555071, 81996233, 15716331, 66262352, 7912728, 29287351, 103110486, 38578460, 17359750, 99101455,
                 33234300, 53404922, 52472380, 123052990, 116960277, 66640001, 10815439, 22329304, 60288912, 53907779,
                 73744576, 37290936, 118565770, 18377915, 109961878, 57783637, 115962032, 73849218, 37369042, 94810961,
                 55740154, 132401370, 48153450, 91633537, 118674352, 51061966, 128544506, 30970943, 20256261, 11138017 >>
           [] chunk = 4 ->
              <<
                 23651543, 20306925, 31132723, 88384612, 31317839, 1619076, 65090595, 111547489, 79070818, 24473646,
                 35265254, 37840101, 549434, 19552354, 56230047, 71751584, 49560375, 81847639, 76013032, 42763335,
                 127922638, 16843185, 92676489, 115320133, 69188088, 127536899, 82891895, 87908110, 90758038, 99292228,
                 7246803, 61289682, 120733276, 116900889, 104685732, 127760005, 117375172, 91345243, 107088717, 75064182,
                 52664205, 53428001, 53550032, 52897893, 13896513, 64628898, 85132904, 53746500, 8354761, 25583179 >>
           [] chunk = 5 ->
              <<
                 9039243, 132159848, 28019720, 59139937, 21783965, 14754327, 45641228, 80628248, 7056578, 13741157,
                 31310, 76072408, 20302435, 72023741, 13618316, 127365746, 48802897, 82374421, 3422671, 9437596,
                 117350905, 27910936, 82418944, 50496650, 19938108, 85149012, 33857462, 128240747, 46625835, 80836544,
                 48877189, 63639532, 16487605, 15482486, 113942385, 65507385, 133291990, 131241181, 62544046, 64477539,
                 64939188, 41856109, 11527244, 19343122, 13715389, 100619530, 45987803, 99368259, 35535068, 64239549 >>
           [] chunk = 6 ->
              <<
                 111247085, 92886287, 21667923, 69301246, 3099855, 27543491, 127639122, 127778088, 70901507, 48553593,
                 19676659, 92619303, 72903368, 122694570, 3629581, 101756225, 70881649, 40008920, 131332213, 86290869,
                 115873524, 12215229, 93441950, 113474055, 35046288, 69578048, 49217612, 121904398, 22420002, 47740731,
                 103607752, 29902737, 71483341, 72687908, 104562977, 67470852, 44246886, 85421789, 29936146, 82306098,
                 108919195, 105817157, 132194536, 101780312, 114437900, 26192056, 108190036, 32130069, 109834788, 53778945 >>
           [] chunk = 7 ->
              <<
                 99304075, 107820599, 30432459, 26832537, 69476293, 66140059, 47722796, 98113695, 3889649, 132822345,
                 3749650, 106047324, 37502921, 63382988, 34785794, 25990584, 92948721, 81220385, 128381280, 46208603,
                 60025882, 108523856, 125764856, 97056591, 132612223, 46911734, 128178014, 130797186, 48940600, 10809644,
                 29589952, 13711300, 30446731, 63093067, 26401454, 45330357, 27430528, 64780629, 83760773, 132237881,
                 120837339, 81907998, 112801347, 256129, 64353833, 122030650, 87641229, 46171824, 107326366, 86319863 >>
           [] chunk = 8 ->
              <<
                 11378775, 112024666, 88662305, 16093192, 122108220, 52148384, 104998915, 95494971, 100682148, 26752197,
                 64160468, 119321037, 23960779, 58240437, 105915964, 85341298, 44629703, 11643368, 107484719, 126992162,
                 130413633, 96881675, 53128543, 62164355, 53873226, 99771111, 127076943, 11397668, 97280830, 21321298,
                 22817504, 133293284, 17050801, 3697544, 20287103, 79297484, 121447192, 62458740, 108246863, 88027796,
                 19619183, 82083983, 110932358, 79976351, 131574436, 63667109, 88217056, 125824759, 47030900, 20926211 >>
           [] chunk = 9 ->
              <<
                 73639904, 73589642, 17580355, 2871813, 1911654, 107287881, 130310673, 97491738, 87197858, 13793831,
                 70676511, 100595680, 125309000, 18689916, 58224916, 132412421, 117003355, 26146343, 110884680, 117293792,
                 28325623, 3757254, 33800696, 28558820, 39321318, 67264814, 32284650, 102499365, 78710264, 43753544,
                 34811353, 73061791, 56238912, 111963757, 17592411, 8174466, 122140421, 99310656, 47484087, 120487791,
                 61493326, 88915866, 78295746, 109393760, 121372658, 69358465, 56455770, 111016808, 123174438, 117865818 >>
           [] chunk = 10 ->
              <<
                 67330181, 17550747, 71380338, 20379134, 70263864, 68524460, 2510524, 117145984, 59072565, 104220892,
                 24576324, 81678821, 527808, 104158186, 107262842, 20106149, 23131984, 18999723, 63551145, 83094361,
                 97333793, 16151306, 74688894, 8288654, 43752583, 91580965, 69571586, 71232885, 74550146, 64758310,
                 105263269, 104218737, 14241764, 118544830, 75201674, 7626596, 33352343, 25676674, 37167180, 5663839,
                 103651130, 13119148, 68144218, 60690025, 75394042, 3740078, 102004552, 119992269, 122472071, 8505221 >>
           [] chunk = 11 ->
              <<
                 59491792, 43703122, 82212100, 130642201, 67854192, 81354422, 68741149, 26763445, 92976781, 37203213,
                 60712824, 68203564, 71576359, 108362312, 64160948, 68149300, 126366142, 33239798, 93847435, 70224010,
                 117646600, 117571594, 126457337, 124528456, 34841887, 123854000, 75096671, 119823539, 126603158, 27190971,
                 112742862, 60066221, 18405872, 55920079, 16323822, 52662255, 59340085, 42410090, 9736972, 90080959,
                 32297987, 57490644, 9814103, 28546741, 89855030, 40638453, 105218111, 16421523, 120396849, 104278127 >>
           [] chunk = 12 ->
              <<
                 20729474, 126098180, 96115983, 86363470, 88618129, 49148289, 19190316, 33971558, 118491817, 18422000,
                 129861662, 62778440, 29472579, 100217973, 127842940, 12633303, 53453132, 118773680, 65399034, 21849997,
                 132858297, 89635023, 111728832, 30026139, 21671607, 94801142, 57917877, 133422167, 69203339, 54198427,
                 45515398, 56542771, 26272404, 47864027, 42751778, 12374072, 96925444, 49117315, 2614954, 45362865,
                 74363365, 61561748, 59117285, 94375380, 2426922, 51585853, 44492893, 69448796, 83742074, 39655179 >>
           [] chunk = 13 ->
              <<
                 68754679, 128952999, 8628964, 15146464, 132215634, 123285445, 105812298, 30675978, 130418823, 117627376,
                 14063279, 11282512, 35643433, 36496546, 5313436, 121587663, 104555265, 24367415, 36298660, 101438611,
                 17388652, 110028642, 56673996, 114029747, 122327891, 90727645, 109921497, 126970180, 34709914, 54485395,
                 20047826, 72021083, 123369111, 69092953, 76583954, 66385704, 94008438, 43895707, 12007414, 37455108,
                 7721077, 107318824, 92369388, 24608019, 57085086, 120163147, 9719255, 36094290, 125943166, 2259115 >>)
      [] key = 8 ->
        (CASE chunk = 0 ->
              <<
                 30427945, 49715839, 129157053, 50381235, 16955846, 25919677, 94598926, 5875845, 11433373, 18366758,
                 33210966, 108886016, 134100762, 67962541, 28104874, 53782417, 86150123, 4065955, 61623890, 65417999,
                 60818405, 52409069, 66435452, 76923525, 25800786, 120438833, 111470678, 54047300, 12021294, 65108950,
                 31431504, 101874517, 2683187, 94108345, 35804922, 69817085, 54715717, 63662558, 121073020, 122293587,
                 50878641, 97442330, 15264706, 88981279, 34676050, 13041564, 133090620, 109284448, 8467619, 51857598 >>
           [] chunk = 1 ->
              <<
                 83237534, 111337933, 50627616, 14459130, 88696869, 7791911, 45424458, 31463211, 92784792, 11550094,
                 66784128, 121251218, 87204125, 69365216, 120980499, 27906056, 78052513, 108500632, 19077436, 81432113,
                 8640064, 72439435, 126976874, 5028444, 65587751, 94196653, 26018643, 19892112, 126975919, 115469195,
                 77706935, 61238606, 97836866, 78432324, 118240407, 59745266, 38339727, 74802232, 47875025, 114761468,
                 117853433, 57192852, 18116136, 21246633, 102581978, 80706715, 13101863, 71378060, 92634560, 42115728 >>
           [] chunk = 2 ->
              <<
                 94240362, 47919823, 127506805, 86423663, 113211709, 66388371, 67594920, 83749945, 26527886, 41445267,
                 20154116, 47746491, 70963623, 38165413, 68422965, 88188588, 9585941, 108464304, 121228220, 114987281,
                 68104387, 122549500, 94126191, 73140057, 29521864, 46198068, 32733862, 121856838, 1599362, 39689078,
                 46067722, 29499890, 35814967, 4516907, 56828035, 34195030, 50590158, 40044278, 111980025, 94676629,
                 119650771, 55958000, 23521789, 88240200, 53185646, 15604451, 22304523, 125163915, 89009361, 114368117 >>
           [] chunk = 3 ->
              <<
                 130841552, 3440450, 27086245, 130603783, 102874498, 21565496, 40271325, 15634096, 1774039, 106893400,
                 102582363, 51063500, 45877756, 112259263, 22838088, 76386768, 58466221, 121484842, 31100832, 18661418,
                 55042821, 75698435, 59868269, 54647413, 56097849, 10756142, 78988303, 9391948, 38754603, 96213176,
                 12765679, 4567847, 11442849, 89014920, 14297329, 102579928, 69919991, 70770865, 48340379, 20623410,
                 108407634, 125689794, 67769657, 65530366, 95049954, 19935766, 131542978, 81127000, 8452214, 25458398 >>
           [] chunk = 4 ->
              <<
                 2273941, 122489098, 18842921, 45740418, 51852731, 88343087, 76996827, 16206645, 99824695, 40186261,
                 47170050, 43679074, 129515020, 49129609, 394624, 86684047, 112162862, 66977275, 28196721, 8142448,
                 117464561, 82847268, 4445487, 118501507, 129541960, 116622254, 101921976, 108516204, 132937273, 109580502,
                 77847341, 23081792, 23863648, 45301492, 130173583, 57852104, 59260331, 16233803, 11187692, 26905214,
                 81255650, 30062516, 66734134, 108901352, 63510183, 106060254, 20739253, 51148734, 16377518, 14557244 >>
           [] chunk = 5 ->
              <<
                 77945132, 96765790, 60758914, 86961675, 16972081, 96549032, 58986495, 69052688, 97378212, 12137057,
                 96031361, 124624808, 63256563, 75679998, 52848622, 109583592, 48426829, 61114198, 30268735, 6835200,
                 26508923, 6566840, 59890821, 14951244, 14520082, 28348877, 97326778, 617612, 95069251, 80617406,
                 82076602, 121675624, 3035658, 87941118, 48868422, 111302057, 58038444, 70850736, 12527302, 131352710,
                 129893978, 100524618, 101419101, 80557786, 67455494, 109960753, 94646419, 76366362, 26934320, 67314098 >>
           [] chunk = 6 ->
              <<
                 30794162, 43501157, 70563741, 51554504, 99851419, 69765598, 86875340, 26330217, 897276, 38863826,
                 82298124, 39793230, 121983949, 10720563, 99762693, 43087919, 124497678, 121737131, 131765700, 54073933,
                 30020231, 84871330, 39784733, 10686603, 73462542, 56302078, 131104342, 99888452, 49560399, 108284160,
                 126355659, 99423774, 114149833, 43060839, 69293145, 40556713, 83901132, 111569119, 128453360, 47898115,
                 105129176, 120161279, 39705229, 87427191, 113510164, 14669789, 26271921, 65123996, 49656831, 50814339 >>
           [] chunk = 7 ->
              <<
                 128658906, 78513267, 113689853, 123299848, 41874738, 27548144, 38989619, 53287467, 82279955, 51469002,
                 113096915, 123341617, 91850425, 70284056, 125634367, 92695245, 97714922, 47752756, 110182307, 90733694,
                 81193285, 78535185, 48611397, 90340931, 57378279, 26290524, 65758937, 110419594, 70992287, 68091307,
                 112500351, 11003089, 36083857, 21937524, 9211013, 66872887, 98398902, 116286823, 36357355, 132707625,
                 56335929, 104698312, 15709176, 83826236, 111311233, 110724499, 36768096, 132436982, 39144096, 36788822 >>
           [] chunk = 8 ->
              <<
                 107941163, 110772659, 67677481, 36051689, 37222483, 133582893, 119238696, 84848876, 55271250, 32821274,
                 48500985, 32988003, 129579916, 33288127, 106053834, 67741705, 100312523, 61463015, 33540874, 31437919,
                 109155662, 108841217, 80074162, 70497302, 111363786, 26223890, 49384130, 66659021, 104792680, 14193206,
                 106493421, 14982229, 52068498, 11304336, 87871221, 22912000, 104722058, 76067114, 133289334, 57388157,
                 123540852, 6058317, 105528621, 122153462, 18361677, 2964750, 81911180, 25668239, 91944419, 35518563 >>
           [] chunk = 9 ->
              <<
                 11682958, 12809174, 62101331, 61704736, 116596551, 89820635, 121524603, 37881037, 124193658, 75982693,
                 12441607, 16957027, 81481770, 47992326, 116099732, 131629748, 87605116, 8854836, 42938867, 106113721,
                 5195721, 112152848, 123452469, 11268208, 115302215, 18428976, 87730368, 107992269, 49157203, 133538952,
                 111191954, 10063028, 109361188, 30968386, 97269587, 4974291, 80495394, 106068117, 42854973, 29840573,
                 39808299, 99865298, 47981683, 129817021, 43861176, 8873060, 69800474, 120811932, 15300031, 123010568 >>
           [] chunk = 10 ->
              <<
                 96822448, 81809949, 46714028, 58325448, 21439646, 21083484, 34214031, 119930058, 52249936, 19966409,
                 57878093, 97682907, 104985518, 8741452, 13391723, 71734478, 29877320, 11025325, 39347022, 124155463,
                 23714117, 45225852, 100583529, 26699641, 14631064, 126905542, 6828645, 7674210, 74605357, 105552901,
                 98807195, 23848387, 110740042, 22915768, 75091861, 85845573, 43857227, 39648346, 118366749, 32514480,
                 98804097, 67162827, 64275484, 14892468, 75543026, 96403998, 125634758, 11136514, 133862962, 18453950 >>
           [] chunk = 11 ->
              <<
                 124989679, 100610700, 17804533, 30251894, 43867740, 29264274, 54736943, 23340075, 22677591, 18123036,
                 102281088, 59111583, 8166737, 93259960, 119111750, 60177780, 78592632, 89636252, 82377866, 38566369,
                 55677972, 109304463, 125696477, 58596179, 77624114, 92147196, 120333523, 98957678, 123841905, 49934730,
                 92894550, 75696889, 131985019, 95297878, 65716861, 116575557, 49197100, 98583474, 113280117, 104646068,
                 70865580, 25161321, 41448773, 35716822, 91285266, 126919218, 63870645, 111806182, 17165056, 112603897 >>
           [] chunk = 12 ->
              <<
                 112452725, 37161755, 67101518, 85264387, 130401605, 67991769, 71626812, 105874222, 125740977, 68700168,
                 38807727, 108301233, 29191546, 76305386, 70666466, 52433118, 102908013, 18090771, 110712505, 65600075,
                 86897547, 63867077, 16678641, 39084063, 52891823, 4302533, 4690972, 116627527, 49859978, 67995289,
                 126802058, 39740214, 46579547, 50343060, 93810403, 3710134, 83406888, 133225274, 19223537, 111435984,
                 92395359, 1942597, 10698706, 111096150, 24783852, 60252340, 77835132, 127220403, 17099812, 103053881 >>
           [] chunk = 13 ->
              <<
                 129448114, 112965635, 57113246, 75712269, 84595157, 77672343, 129537259, 117730851, 14500928, 50025280,
                 134093910, 67426693, 5315393, 132592419, 80697679, 96062642, 88036970, 49488728, 132318268, 132082637,
                 48068220, 14264372, 127071668, 42922020, 87268434, 13707195, 63976250, 113188982, 22782603, 86728514,
                 31643860, 63998099, 49014214, 77361418, 46476524, 125182782, 49894666, 101116388, 108460453, 57650181,
                 50320204, 99680622, 84380748, 89957493, 5178283, 98583625, 18883970, 124661671, 95284023, 88986880 >>)
      [] key = 9 ->
        (CASE chunk = 0 ->
              <<
                 62143795, 82304355, 50105079, 35854175, 18594445, 24983952, 116307962, 90817562, 863698, 45409281,
                 67482268, 62239650, 120567512, 81161302, 10846758, 44831943, 74392922, 125679583, 82765367, 93965603,
                 5488936, 97736307, 50871150, 22738389, 94419539, 126998886, 60669220, 127677458, 97316626, 56718624,
                 21093277, 22606020, 31945457, 6889936, 14891125, 17773859, 67950281, 117001005, 123994334, 133007565,
                 79245966, 8499682, 103912635, 92400952, 51494623, 105977638, 100139204, 119086553, 13645840, 123340109 >>
           [] chunk = 1 ->
              <<
                 39081260, 27509281, 90494424, 30105180, 97402657, 106434074, 56607050, 119396877, 11772556, 103693964,
                 35800373, 122323256, 28170976, 53223088, 37739933, 45856796, 108650687, 5797497, 26774184, 95133622,
                 118970558, 707542, 118027471, 55188678, 7353702, 120233946, 50843876, 113522222, 65996432, 18675433,
                 3151856, 31773807, 57005671, 98815600, 121656374, 114183265, 15038595, 129387575, 80107266, 520043,
                 16271542, 102591084, 77671839, 26530864, 120165594, 114379862, 27253338, 44320935, 1107639, 119785996 >>
           [] chunk = 2 ->
              <<
                 11207663, 17875572, 72446627, 123165900, 2344091, 67216693, 11386570, 76903824, 66671535, 72153791,
                 123604638, 26598659, 56385864, 9236889, 53436751, 25791881, 85727216, 102662832, 12538324, 94066180,
                 77819459, 19509512, 23159965, 126126474, 81723610, 96587809, 128624326, 5529781, 7271004, 36238049,
                 74498988, 91700904, 81387055, 114351854, 20039307, 100012305, 36012032, 98902683, 133531057, 77213000,
                 133944497, 4595368, 16285391, 116589579, 94686347, 54004864, 127630695, 121620324, 31780892, 21708337 >>
           [] chunk = 3 ->
              <<
                 82024137, 67768057, 5775488, 98783672, 49116555, 113503344, 90479491, 70069563, 79223227, 75864079,
                 103968407, 92303363, 11641926, 116416555, 46600147, 14759374, 115968956, 118340915, 78401920, 49065759,
                 60572461, 28189831, 53978384, 26678749, 132348297, 127091201, 77099484, 100086067, 2465125, 50861034,
                 107289605, 81570391, 44118998, 82535, 58193115, 14993143, 28645714, 29756863, 59594613, 36190108,
                 43581779, 109347038, 11920757, 41225448, 84491424, 38236877, 13833745, 69458239, 105239956, 7403949 >>
           [] chunk = 4 ->
              <<
                 3407934, 51188201, 104786643, 75220262, 108387502, 57530849, 66750583, 46449891, 95220486, 104392269,
                 33321005, 75970785, 99001245, 8895969, 57043476, 86953353, 30998030, 12854703, 129395925, 102104684,
                 53808427, 68434561, 50059110, 128290832, 115414025, 75224161, 49574657, 18674483, 89591054, 38963062,
                 22959251, 92965312, 113182281, 117509898, 34750588, 3942553, 6778498, 126093680, 130897040, 108660820,
                 23186938, 35293994, 127039657, 22040499, 132360973, 16141330, 81410789, 19907081, 1593800, 6553364 >>
           [] chunk = 5 ->
              <<
                 8175297, 60456742, 27998066, 105572843, 52194408, 39492075, 82080674, 1985606, 129712480, 107197832,
                 47584359, 38253445, 18876986, 64547529, 75421256, 37275845, 18428040, 129086804, 11621679, 100327603,
                 74619652, 39729835, 93413951, 15828431, 8804265, 56361686, 60585942, 19128786, 94468327, 75420361,
                 102565194, 106688369, 51405507, 78943294, 119074836, 107742659, 22693515, 89011630, 96028286, 36796494,
                 103576454, 80166691, 118145923, 81668853, 66362051, 46824664, 13317949, 123908360, 6504140, 37158356 >>
           [] chunk = 6 ->
              <<
                 70979396, 17226062, 23263782, 107160941, 84514719, 110109629, 11310836, 21773450, 104709833, 105984836,
                 29851078, 115307694, 1746738, 27231984, 23602260, 63570327, 61296901, 79392900, 75060635, 73216606,
                 52114597, 11166453, 23226345, 73634467, 64701220, 79581936, 127028654, 35223938, 71864172, 8936647,
                 126337453, 87384310, 3861888, 77982755, 133298857, 78553030, 119318771, 58485288, 73061919, 41441244,
                 70262366, 70731556, 72091559, 86116179, 122075644, 106853388, 8801883, 117765806, 86276559, 77024254 >>
           [] chunk = 7 ->
              <<
                 72766317, 128236433, 40308021, 8632803, 97298082, 30103991, 96727522, 18448610, 13852621, 13370593,
                 93888064, 65990405, 60871999, 8113038, 65795638, 119305675, 85464693, 97643477, 7106568, 91106047,
                 80922269, 3919644, 50082371, 32700997, 117941684, 61557880, 31018426, 49825702, 110477503, 129188220,
                 97923854, 76930122, 83884200, 66561360, 117554515, 32629109, 4831697, 83543789, 80122510, 11359086,
                 82312237, 6296239, 91007129, 54997378, 54583192, 78994722, 9256290, 10836402, 25379238, 4578292 >>
           [] chunk = 8 ->
              <<
                 81619943, 101019204, 24335417, 11329711, 8707583, 4008138, 47619674, 83832358, 63114775, 73419382,
                 71882874, 63703060, 3485856, 94428146, 104095792, 10108539, 44805816, 11354862, 105068429, 43147864,
                 1150309, 62256803, 128049012, 60284846, 79221374, 19942043, 131045497, 51820131, 132380933, 64187522,
                 111774428, 18509610, 14258660, 119814648, 46810239, 90091885, 31046771, 60597072, 104687758, 17367192,
                 25791648, 130014550, 29682851, 14599533, 14845333, 7077399, 16118351, 10017143, 125913793, 86613319 >>
           [] chunk = 9 ->
              <<
                 131022450, 11079760, 49986426, 13907657, 99462880, 3147948, 62748033, 84094719, 70063467, 26934779,
                 49591887, 117350210, 85189829, 10889828, 31695941, 734379, 34408680, 102455865, 69501579, 91641492,
                 26488887, 2077838, 58955918, 33992606, 126688373, 81974212, 2984190, 128943181, 13858486, 69718672,
                 107370193, 55989370, 7758224, 120649105, 33720351, 63830990, 114305139, 42291265, 81235701, 117419892,
                 29621986, 85757477, 7866406, 91428147, 36934518, 17747611, 40285280, 5219936, 107411665, 25056397 >>
           [] chunk = 10 ->
              <<
                 130936670, 47438133, 105533884, 131748046, 121030809, 54118487, 124913870, 973531, 117651966, 131186675,
                 123476939, 40632036, 129860805, 115312488, 12672189, 3955029, 42638072, 58964566, 33176359, 55912103,
                 81090386, 43184390, 65995538, 75616955, 46565722, 118222624, 112354209, 119784727, 53565191, 57724898,
                 28042430, 10543578, 37096233, 40384470, 61974988, 62627374, 81935753, 124098524, 76294503, 61191161,
                 59046841, 51676903, 25009423, 44221514, 53977784, 7902529, 43623990, 12324630, 22893205, 42616054 >>
           [] chunk = 11 ->
              <<
                 72998553, 3605508, 25308378, 28332946, 95509666, 48936382, 88417620, 120345068, 18480900, 126664108,
                 83935900, 11531324, 45344989, 130850340, 60005579, 129160592, 81410524, 80465005, 102220725, 126236444,
                 118591374, 89958045, 98455468, 51655340, 28351258, 93550770, 72737842, 103532771, 45012599, 10182263,
                 2566468, 89895429, 74150019, 56616189, 63162471, 30514197, 116354316, 97607718, 43444660, 102535488,
                 111879906, 107263849, 69007236, 67424066, 13300232, 62174495, 96223149, 429114, 38206171, 123167178 >>
           [] chunk = 12 ->
              <<
                 71605331, 27530362, 9586504, 30029874, 1449967, 131967310, 123612932, 42231532, 5639836, 12279775,
                 20013424, 44098431, 21917579, 93095892, 12891519, 68399275, 110604385, 106002495, 133577907, 54193323,
                 87132028, 112710068, 53077626, 52266829, 119243984, 78725452, 67941999, 116552525, 18098347, 68279809,
                 92638671, 47971042, 48183302, 127124611, 36228572, 27110243, 43009431, 122813277, 51679504, 76143555,
                 24485451, 107308806, 82208806, 104305545, 116556054, 23909950, 76607735, 23024239, 1268367, 41072907 >>
           [] chunk = 13 ->
              <<
                 91832879, 119122792, 2700451, 37382050, 64261790, 70134684, 116196998, 101260056, 90885290, 57327943,
                 121897953, 131280212, 101285289, 12581494, 36615635, 38245485, 19288601, 69382059, 60596259, 64264666,
                 91240295, 133410785, 31146076, 24036669, 44432668, 19685742, 100410981, 91076987, 46660899, 99806866,
                 80650624, 6824027, 73203824, 37391346, 124671161, 46214353, 3520239, 77653885, 25019261, 72176710,
                 104494228, 127591612, 89802931, 102274996, 12961354, 60861486, 18059015, 45732331, 28291808, 100372462 >>)
      [] key = 10 ->
        (CASE chunk = 0 ->
              <<
                 76692358, 4373493, 57564514, 64768331, 77590101, 1990777, 27662036, 62086504, 109162130, 65940689,
                 110540227, 37248192, 87707598, 108799412, 21505647, 4617569, 69883058, 65778173, 43992922, 10212539,
                 33553985, 127828860, 127884920, 100065583, 133755615, 48473890, 5980256, 56424622, 115448860, 18614559,
                 80958873, 47658257, 51218288, 56541096, 38066592, 110977690, 90592248, 35208143, 61314839, 23443889,
                 92054770, 40682079, 88831509, 48665658, 17848024, 61327894, 103057446, 115433841, 131857274, 32129078 >>
           [] chunk = 1 ->
              <<
                 130109076, 59008525, 82319332, 50364262, 5940561, 78239749, 544272, 31628935, 17981488, 26166189,
                 126299186, 122082867, 40649256, 71987029, 49143230, 103623531, 120553859, 32236719, 42193195, 89481610,
                 73683141, 60481595, 58523084, 63078838, 8723370, 87641187, 78456466, 43578923, 113288875, 67366162,
                 20994191, 113034830, 30104897, 130162157, 55414501, 31994017, 4955972, 4260968, 66652993, 40421581,
                 109787801, 81426837, 88300627, 9668343, 71602974, 124053107, 114773034, 10864867, 20090801, 51595826 >>
           [] chunk = 2 ->
              <<
                 76133056, 126911595, 50220893, 122535763, 80705730, 20087247, 15155288, 129358581, 104087552, 103768842,
                 12966215, 59263948, 22328963, 131793655, 108374071, 25625668, 127197325, 46799184, 58147347, 130256510,
                 55576988, 59808395, 32948019, 91374029, 36870065, 19262017, 82846264, 70042454, 23952550, 116082576,
                 16036670, 35839766, 61167697, 40610262, 22137577, 88640298, 87070372, 126570737, 110200227, 23395220,
                 104355812, 23634324, 64442412, 103730083, 46650224, 44031995, 58345862, 30019898, 672239, 73128603 >>
           [] chunk = 3 ->
              <<
                 95639956, 5861683, 44514278, 120383420, 42872261, 32564265, 10727356, 35133809, 60137048, 54330330,
                 78228664, 21237545, 52423691, 123563529, 116708427, 66539817, 90375938, 119920447, 32401265, 98827311,
                 70511799, 133180398, 122209780, 36465967, 69807941, 64772743, 80813147, 67092759, 8425333, 22321622,
                 65684292, 90502273, 61933597, 120525957, 53838741, 18221475, 56429878, 72651048, 78508653, 46872926,
                 72298667, 52052355, 65752695, 94188029, 22252821, 74990133, 59236567, 13240749, 130013786, 130725728 >>
           [] chunk = 4 ->
              <<
                 55723669, 111275425, 4740278, 117039661, 379893, 58864987, 71862648, 8716195, 6787785, 46927613,
                 12447809, 20402711, 14597038, 81634217, 60945361, 111864039, 133236336, 107310512, 65103027, 18696483,
                 61557656, 115700587, 58587489, 103965247, 67258138, 123835127, 60007064, 46067463, 97470954, 34778706,
                 120519672, 105861520, 93666572, 61504732, 56815787, 44073729, 87178322, 69748107, 122076472, 70248112,
                 20619512, 99272969, 31855565, 43360631, 83095806, 4415707, 92210256, 26250075, 86248341, 121422623 >>
           [] chunk = 5 ->
              <<
                 78990966, 77217965, 111323296, 84346348, 64282635, 3342396, 108392742, 15619707, 129165215, 39766099,
                 58432584, 114248096, 115272302, 33090109, 96400860, 38830707, 119276811, 11951632, 6205675, 80160979,
                 122554025, 73903092, 102923325, 132027064, 129168313, 14173838, 131710454, 109617465, 38317246, 21828282,
                 89926054, 64065615, 18961412, 48450513, 79877367, 53777009, 123423894, 105609198, 25766222, 132319389,
                 46958580, 24500660, 10703283, 79386257, 26126328, 57276932, 27877379, 132375400, 12885026, 91855472 >>
           [] chunk = 6 ->
              <<
                 134177199, 41406688, 119122790, 129144783, 62244809, 115853073, 99818052, 100852811, 93313102, 111043311,
                 70122670, 96968884, 56839435, 60078848, 89130412, 99783471, 74560615, 27985289, 35687128, 80199200,
                 48898947, 15559521, 84190319, 105060886, 84171815, 1039860, 28131198, 56891962, 81842345, 54823003,
                 117430950, 51250050, 116948932, 109000162, 87545299, 26808748, 9418416, 103653120, 56843635, 106987546,
                 11948368, 110580216, 7415502, 46708372, 34184998, 48348196, 61320558, 56931288, 101924876, 25987246 >>
           [] chunk = 7 ->
              <<
                 84401682, 100588957, 37914441, 62636855, 93290590, 39460204, 67982213, 67027145, 68119471, 121874571,
                 35382754, 54299024, 59276680, 85832093, 45838826, 46839196, 97515406, 37186466, 64773009, 121599895,
                 59963860, 114524818, 64022942, 78810995, 64412614, 11267503, 92561739, 72451681, 96616321, 49260361,
                 107521415, 96915247, 54392657, 122255909, 106507117, 22616946, 129483324, 80922945, 133190883, 55800243,
                 96724757, 75730845, 8789737, 79931235, 113720872, 98455289, 112267354, 41093958, 2190140, 79426357 >>
           [] chunk = 8 ->
              <<
                 43978549, 87437072, 43231157, 9914507, 99380459, 53222110, 81913923, 50195106, 37892623, 81301148,
                 25013562, 32325988, 22619766, 41301900, 12811515, 74639361, 106108876, 109673578, 125592326, 7156350,
                 29511302, 76508004, 99980489, 9917247, 127660349, 56593628, 25733192, 76440950, 76758373, 132054140,
                 58963549, 122797793, 130843618, 107985300, 116714650, 79649760, 2153941, 52677645, 27021689, 45546030,
                 113814495, 119190164, 77073332, 25606823, 70171620, 125176467, 108691338, 75708396, 102547941, 103450890 >>
           [] chunk = 9 ->
              <<
                 128143885, 112152235, 43848695, 116802264, 6396015, 88266155, 92916622, 77612395, 6729415, 4905761,
                 75857071, 49119184, 115391859, 125516680, 53288228, 43561862, 80686173, 85678959, 23008966, 103711964,
                 21170928, 15759166, 81343334, 105941049, 116028966, 46359177, 134195980, 22048940, 4179369, 97027555,
                 123612155, 72034376, 68601130, 108108322, 46889724, 11838953, 53340093, 58954210, 77563009, 118233429,
                 46667086, 8007019, 19529883, 124013775, 116173953, 59692533, 94823407, 63190815, 81853344, 60614836 >>
           [] chunk = 10 ->
              <<
                 96980231, 59312844, 132342156, 81090155, 23500571, 47484298, 110618059, 56851876, 110367815, 110722423,
                 46083364, 128264913, 74997724, 68828911, 61524749, 52108623, 26083371, 13023455, 58102528, 86054267,
                 20476105, 5549061, 125118184, 115448601, 25160908, 85906565, 85078128, 25518550, 76505783, 57548164,
                 130816335, 122072848, 106514933, 120923822, 48343999, 75043398, 50481466, 128883403, 6697212, 81256089,
                 6957542, 22212101, 41738148, 128358702, 127484124, 29973340, 6649420, 77846016, 23722076, 13373797 >>
           [] chunk = 11 ->
              <<
                 85387454, 75773786, 48380365, 112202159, 24907727, 40618963, 127155841, 114126766, 5740404, 53124478,
                 80270204, 102465514, 57548391, 10434248, 46350466, 101943783, 26163193, 65990243, 21851906, 22599253,
                 54442383, 108561526, 100978146, 129292375, 62844322, 126311656, 104329605, 44057131, 117932063, 5009418,
                 23233925, 111851992, 118064859, 23648933, 78034669, 94782492, 56457041, 20553471, 68901443, 86135429,
                 119449321, 93529730, 52608695, 130091707, 12655803, 53231469, 128813948, 109141352, 15888509, 31547508 >>
           [] chunk = 12 ->
              <<
                 14338119, 56727373, 96864061, 85738039, 41720006, 97074651, 38918564, 71616750, 87180221, 114002809,
                 119649254, 13297011, 46383267, 111890615, 121764397, 70036548, 83180408, 63779496, 81581398, 32821015,
                 71474547, 39006725, 1640187, 89273309, 21213594, 129366251, 90874425, 51863498, 93067779, 30723930,
                 13005021, 68490148, 85495488, 102276576, 63660268, 13384898, 77438556, 121588306, 53570415, 78218972,
                 29238837, 38563268, 47709966, 9362752, 130031931, 118460181, 25300260, 83539480, 115735477, 74912692 >>
           [] chunk = 13 ->
              <<
                 71302511, 3503626, 10048395, 53714556, 108880272, 4196584, 2320250, 87663747, 112368325, 57787123,
                 45432392, 111924688, 123294959, 23915830, 97575515, 6358479, 48107035, 43547695, 83930503, 63904756,
                 132435989, 105661758, 22963893, 2531119, 27590995, 17086700, 38815977, 128743491, 110147445, 27050782,
                 33142410, 121628172, 33069128, 51852200, 82504072, 73153008, 78460405, 79932886, 56202211, 117272404,
                 73969344, 102129897, 4173608, 16824032, 733063, 16533703, 3713748, 112550952, 7382122, 92031679 >>)
      [] key = 2462 ->
        (CASE chunk = 0 ->
              <<
                 17781057, 7888386, 39648187, 93053811, 56265663, 101016636, 59975643, 67883807, 130591707, 73294096,
                 80566798, 83468018, 68502003, 59938871, 47908662, 45516286, 74646824, 84303609, 29543187, 132413525,
                 99164488, 80735466, 45463991, 10730840, 75805806, 127902769, 119600529, 129525887, 41569166, 70868913,
                 86129629, 49291084, 92694546, 75925088, 103129442, 13908845, 341745, 92984872, 104903832, 109674824,
                 20730174, 102125216, 33659800, 35903546, 131977433, 78776909, 118359480, 105438093, 119466799, 33057053 >>
           [] chunk = 1 ->
              <<
                 83619331, 66485750, 11258203, 104361914, 19128933, 107452098, 48526215, 11704717, 72649494, 117147755,
                 41780694, 37783371, 83841596, 60814580, 92561422, 20830793, 87836340, 14361871, 48339742, 9387389,
                 55307385, 97749512, 18655966, 39116593, 106295693, 33962502, 91748394, 36283769, 71224244, 133477584,
                 106720807, 3616235, 13143728, 53533102, 114806238, 67577036, 32137379, 69031313, 86880004, 71232904,
                 106547954, 133090326, 15435083, 35058223, 102201686, 24542407, 109532444, 63961477, 88142747, 28777365 >>
           [] chunk = 2 ->
              <<
                 14307816, 28196678, 27113788, 92989553, 20881801, 4853122, 127432193, 79033275, 87111754, 115909268,
                 94320182, 96288556, 56364044, 47130316, 112129435, 24324994, 104822910, 88967111, 31315772, 24429136,
                 108920451, 7092292, 129850249, 68518747, 69798570, 125378749, 67837635, 91668881, 46088523, 32009301,
                 71916642, 89430970, 105023948, 109949618, 131957069, 37428269, 10374407, 66508143, 80028731, 120687982,
                 33461682, 43822154, 17029850, 69968795, 64769743, 86838716, 56808046, 38128140, 106828785, 51420047 >>
           [] chunk = 3 ->
              <<
                 92819803, 109779702, 64556343, 62457450, 48817287, 46432756, 34404810, 62666522, 38917681, 58816960,
                 114052741, 110565886, 131482028, 97897187, 36336494, 90994986, 75999186, 29635786, 131745109, 46374583,
                 106913078, 128159910, 49901238, 68102966, 41527837, 84550898, 23265494, 25655619, 76833522, 3724017,
                 3550789, 11474428, 61600158, 118485430, 88838514, 13402316, 3476025, 133751808, 51819442, 34702747,
                 120138630, 34313699, 69288089, 118910518, 79823572, 19074798, 105573974, 51743555, 66353699, 80552284 >>
           [] chunk = 4 ->
              <<
                 17059543, 109091833, 96829583, 91178278, 48695586, 92104754, 131381440, 86720354, 34103644, 85577894,
                 90893365, 30158201, 63385753, 76438556, 33800244, 120874773, 790063, 8692286, 120938547, 81303721,
                 75467006, 110349820, 8079975, 19609425, 77077535, 13029233, 1136767, 42396984, 60959709, 10776559,
                 74741756, 56890831, 108874870, 30255092, 57748983, 105788762, 42814818, 26952786, 116982815, 118820257,
                 39966415, 76792642, 46563383, 79151296, 50495122, 75552110, 99173781, 39648250, 60234587, 90507432 >>
           [] chunk = 5 ->
              <<
                 8247761, 16288049, 103909990, 47812287, 100904932, 120026207, 27530399, 36371996, 63849368, 18757867,
                 95741106, 2376151, 21630145, 88336844, 17211476, 76885298, 87625444, 106291776, 45151182, 93970400,
                 94931439, 43872568, 13193478, 23949430, 14226250, 2937976, 114018474, 52561002, 9336238, 63043177,
                 50613984, 28064065, 56206799, 23641956, 57715181, 118247031, 76699448, 116263955, 32633240, 65812870,
                 104672947, 75157305, 95152733, 99140438, 45367270, 12720408, 79416123, 130679086, 73675025, 124787392 >>
           [] chunk = 6 ->
              <<
                 24711637, 123772953, 125195122, 23751521, 104834458, 88297747, 62329377, 74973090, 76722631, 21249045,
                 25349788, 125821652, 106828312, 98978734, 58988792, 51784912, 58786123, 125426750, 97307306, 2959172,
                 7708762, 95633873, 12166942, 116961429, 63562210, 111426506, 46821504, 87098477, 112926299, 73309518,
                 69748019, 9902523, 86599474, 79421279, 115656787, 33942026, 59963505, 126259272, 77414120, 101750872,
                 17488878, 92754604, 19710534, 71481458, 8580591, 73949448, 62371369, 37225778, 118279065, 81724353 >>
           [] chunk = 7 ->
              <<
                 91377300, 17983387, 66972938, 129195165, 77887451, 30575957, 60759409, 126905095, 71051546, 104134225,
                 27564219, 124122602, 64584368, 36862682, 67182920, 15867145, 23269835, 32626001, 113811343, 125275928,
                 92896570, 95943242, 48548329, 68572728, 86774828, 76007022, 69527643, 58621600, 73566243, 59524519,
                 69580188, 114244094, 13601852, 94418149, 80466383, 65389043, 49423869, 37690937, 65477031, 63949128,
                 112907030, 74872010, 34215671, 8143714, 105158706, 58864607, 107582468, 41190406, 75483310, 88867990 >>
           [] chunk = 8 ->
              <<
                 94737757, 116626531, 44226843, 86998535, 31022351, 39467460, 14240226, 130817439, 92200816, 89770900,
                 71188654, 9940277, 3498357, 110064143, 86262073, 48202111, 8801309, 129397520, 62294312, 100845757,
                 89568356, 54216156, 33201065, 20733463, 8857546, 9723810, 56601011, 61822516, 99223935, 43105868,
                 124003288, 80165747, 61076401, 130012787, 28349209, 6176571, 57388911, 81430387, 114127172, 47408254,
                 49546448, 80682657, 21834936, 67076738, 113827294, 29671985, 7112623, 104321728, 17260328, 17857158 >>
           [] chunk = 9 ->
              <<
                 32839938, 110723362, 133360260, 118878621, 25207802, 121987404, 8823804, 2028983, 93246840, 4819112,
                 127618962, 92634122, 83775283, 38702873, 57906059, 102624526, 127970414, 104065126, 91137919, 57565379,
                 129750972, 116349716, 46488797, 40288203, 30300199, 12100174, 87322425, 131359049, 87268748, 105414166,
                 104107005, 26372081, 36797139, 32467916, 101872443, 89700139, 1720794, 72498063, 86003061, 117578851,
                 56684453, 94751917, 55144290, 71999824, 130941455, 118564469, 119250234, 29157289, 128357594, 31953430 >>
           [] chunk = 10 ->
              <<
                 48798534, 107240357, 91445507, 28413737, 61441842, 89466378, 108863582, 17880644, 16615560, 108928130,
                 125185089, 128776331, 123409354, 71115149, 16801034, 126821612, 69788000, 31114299, 22725069, 909881,
                 2082349, 117983148, 87605469, 98636270, 98426381, 40040134, 130210114, 85818818, 21229595, 131421556,
                 9281328, 85387793, 76851847, 71491809, 130725795, 9469855, 79277766, 102899995, 76081299, 59995310,
                 76915705, 108252597, 110798136, 79133237, 45307617, 116678744, 20174671, 123901920, 106964633, 102656221 >>
           [] chunk = 11 ->
              <<
                 2527685, 75093212, 72912727, 94259853, 89018713, 52875314, 49533728, 115597136, 110218404, 50435463,
                 94735061, 23410574, 19615757, 49848240, 78657428, 122913083, 85046037, 38060868, 69541455, 100120375,
                 120984499, 15427184, 98593125, 32684719, 80630738, 32151072, 94403553, 84318880, 5142398, 81465850,
                 133540532, 112334804, 78660770, 41062105, 104540136, 1389094, 24179728, 38482912, 35398794, 124760063,
                 73415833, 93006464, 90912491, 100489338, 57854044, 43631944, 88679473, 112884198, 99571039, 9148588 >>
           [] chunk = 12 ->
              <<
                 66240581, 56827070, 20001552, 52790338, 51467947, 49873298, 77927845, 40728017, 43524234, 83285030,
                 90313744, 60322039, 55846068, 78447418, 39747434, 128876350, 12708199, 99952153, 56736899, 83655475,
                 107974918, 110903304, 50548356, 93643380, 112867253, 32522745, 105243550, 9190475, 30225072, 51732141,
                 10466565, 60138208, 35971120, 99241818, 13953175, 7450688, 105314270, 14480624, 45736031, 97008792,
                 88808996, 133553364, 119841117, 34255887, 63883566, 104753643, 110380580, 111687156, 120099121, 91173858 >>
           [] chunk = 13 ->
              <<
                 55997833, 69105094, 3812760, 77431789, 97812212, 8215491, 112788618, 80756494, 90273204, 115869489,
                 26827131, 35894485, 126237370, 27475467, 12967694, 66537506, 84672606, 22794630, 15516245, 13566861,
                 74464040, 129699158, 120213205, 103632201, 128415847, 39253132, 130593664, 119250251, 56217275, 61700262,
                 128087086, 90703653, 128830070, 13867555, 123452353, 66942127, 90438177, 47377843, 89002425, 65230567,
                 62979712, 64538996, 57032797, 96776520, 16769505, 5919002, 99539255, 28271673, 46469405, 38394027 >>)
      [] key = 4571 ->
        (CASE chunk = 0 ->
              <<
                 88534684, 89533873, 112883769, 44242892, 71896667, 129311345, 86205545, 22038030, 86454198, 68804829,
                 16883701, 5499983, 61950682, 101545288, 26390590, 57606382, 110140666, 78415460, 119652817, 87848301,
                 31175342, 3441345, 17328556, 102520784, 65303480, 75031067, 133820582, 64971629, 129285214, 113426408,
                 131051534, 21946901, 130596968, 1586000, 81861705, 10419772, 50822128, 26711917, 96563966, 121698073,
                 123628591, 73608835, 108394168, 113412278, 85501690, 130851912, 89397718, 104820843, 15044761, 85163239 >>
           [] chunk = 1 ->
              <<
                 84894515, 10055138, 66667605, 46388265, 43557188, 69114785, 40100738, 112406747, 31243558, 4227081,
                 98818107, 49429962, 65344642, 41850294, 38559302, 131778262, 31746765, 74372587, 134130607, 129988981,
                 1811230, 81679664, 74884622, 74591916, 3547302, 87521095, 67683526, 132056736, 113129011, 37593887,
                 108959125, 3363342, 17795428, 6257544, 110736861, 11973757, 125486135, 111312332, 38841786, 11808681,
                 62517404, 50207464, 120688431, 9306532, 4926805, 37777182, 5376514, 71126870, 132174696, 71437466 >>
           [] chunk = 2 ->
              <<
                 75339835, 131895051, 95285434, 77461165, 47581572, 47943588, 120748373, 46297801, 121923043, 40081978,
                 129897157, 98475194, 47760823, 45257519, 98443715, 37192586, 45100915, 71503162, 63991269, 88735105,
                 88666346, 69240859, 28511651, 90670353, 2678763, 9010154, 87609983, 56668274, 86301932, 39051004,
                 66649102, 115760482, 99806899, 103333127, 20441277, 132135209, 25960629, 18033953, 118216400, 69424123,
                 31718612, 2225340, 114759497, 106774696, 16339052, 52719692, 36210114, 87792569, 83913823, 21339533 >>
           [] chunk = 3 ->
              <<
                 130333747, 83942701, 99099703, 60325599, 109411023, 33946759, 35023228, 120202932, 74355075, 89859616,
                 38350869, 88891976, 130967506, 69616521, 1087805, 31873293, 116810055, 49010334, 28091877, 75332765,
                 74989218, 106534944, 72458982, 77630294, 72359729, 105425010, 31731147, 69028954, 25665268, 64785198,
                 9617862, 91188431, 32972488, 41587816, 94472666, 129503486, 76764553, 5394553, 34685835, 5586450,
                 68280051, 82472477, 20975340, 72444316, 50301840, 97767524, 63762211, 64960494, 69117376, 75839502 >>
           [] chunk = 4 ->
              <<
                 63605621, 6483658, 78086270, 121431538, 68682696, 70354358, 103664192, 30602900, 76920993, 66105730,
                 95244092, 97521013, 51752635, 123176312, 107115436, 92104390, 68712846, 23836655, 126895628, 42277329,
                 57011244, 116431076, 118931233, 37608339, 129091199, 17543978, 110108079, 81218480, 9975555, 102842404,
                 129338351, 107059368, 122238646, 106095015, 15931467, 44005385, 74864863, 38043050, 67149704, 50520247,
                 25753163, 34727098, 41891691, 79463183, 61258758, 106503418, 94290066, 7725022, 65876779, 48940980 >>
           [] chunk = 5 ->
              <<
                 78480222, 48650216, 21198251, 102593877, 69338838, 5456137, 35938977, 4483683, 8963731, 133603278,
                 110577808, 76356695, 24204499, 96470847, 123588322, 8965925, 107666824, 50023436, 103567662, 106600269,
                 81722443, 30953658, 42648320, 67901966, 123618742, 40032708, 52484697, 79953616, 103583390, 118920962,
                 14895487, 51590562, 52039472, 53657649, 5675949, 99313239, 91201460, 83290856, 1338592, 56004668,
                 122692041, 30651107, 97014858, 40364696, 72010978, 65467421, 133655535, 15497102, 125402250, 108422522 >>
           [] chunk = 6 ->
              <<
                 38665076, 65743447, 23911658, 38118373, 31363912, 29695263, 24149271, 73676458, 104936062, 39267113,
                 58295241, 102126082, 120180113, 52640990, 107841641, 63331895, 90793238, 21622837, 34414418, 36548335,
                 80372464, 44286229, 7952006, 54893980, 95450796, 73213700, 43995614, 36230612, 40511427, 120174608,
                 72548366, 32180327, 128994604, 44094743, 134054197, 21911292, 94063548, 80446472, 55892703, 62401725,
                 7244903, 128216574, 21180178, 60889721, 32740814, 56406551, 12229450, 28308481, 17214043, 2542136 >>
           [] chunk = 7 ->
              <<
                 81892635, 80816332, 112096828, 66169019, 106223790, 16678536, 25592772, 120771187, 126178440, 60756605,
                 78767157, 28296972, 111385150, 53520994, 15949803, 28267331, 58759079, 40479450, 129730517, 50630985,
                 69833885, 113963546, 62914567, 92586594, 76723430, 25407016, 113409332, 45198579, 76258888, 25085364,
                 101688787, 19279911, 91741669, 59387781, 47706130, 123185396, 78932623, 80812819, 101295236, 48297118,
                 24156143, 109018711, 95294140, 123740932, 41946902, 67530034, 82274636, 36592886, 46338123, 4377080 >>
           [] chunk = 8 ->
              <<
                 90784269, 44210288, 73123217, 126182453, 53381506, 132677089, 32621519, 128911104, 36197474, 11522475,
                 76520701, 110370874, 94861116, 84554373, 97843010, 60185872, 103685026, 41534195, 90226639, 75537830,
                 40051522, 46196666, 129271071, 33107669, 97744596, 103088041, 129904590, 82986974, 77213347, 35873450,
                 89769527, 126205846, 106768294, 47170017, 34508023, 80333357, 59480331, 65096420, 31525228, 67417590,
                 117481186, 74977108, 55593233, 113255450, 127664198, 67353647, 4139465, 132575653, 90637265, 35641445 >>
           [] chunk = 9 ->
              <<
                 82426265, 12700561, 9722053, 37184910, 129327475, 24607287, 98350781, 121638463, 74781976, 101565915,
                 40308502, 81838314, 66068932, 40033011, 79365555, 72864980, 104374308, 132032636, 61729141, 10094236,
                 29197879, 2029341, 20609673, 61043253, 130176608, 27420413, 31691968, 115012326, 11093511, 74960455,
                 67102314, 38375728, 40056585, 18920833, 109259876, 54149910, 39454720, 121668995, 76365425, 71402828,
                 99154949, 42575790, 5446558, 51900635, 98616980, 11139412, 97809295, 121164883, 95431302, 14531868 >>
           [] chunk = 10 ->
              <<
                 11617310, 112756645, 44701487, 9216851, 61579755, 11776380, 124271870, 71441233, 123529558, 98334793,
                 76085496, 69564399, 130756151, 123865895, 76892889, 6088864, 130892589, 73075614, 22342442, 7125629,
                 115423333, 45819298, 113532526, 28543681, 128516937, 68218248, 56531955, 101318467, 129911339, 61202313,
                 45167197, 59085748, 74740079, 115379970, 15763644, 35269764, 28171928, 36654898, 17735030, 27032761,
                 2563439, 28155836, 121319205, 121973124, 98902294, 64462793, 19996228, 98629987, 39098734, 65276480 >>
           [] chunk = 11 ->
              <<
                 91237423, 118456940, 42311539, 96830017, 79071427, 111554405, 95462011, 76162245, 132461024, 92535116,
                 94595959, 1880671, 68936605, 10664233, 98229592, 61319622, 5870054, 22733320, 95443199, 44898116,
                 99585440, 73822559, 125513808, 14244804, 11573213, 90222908, 96631616, 7988385, 66807415, 112477991,
                 82248833, 85768939, 13695963, 46085635, 13649612, 8349368, 124559169, 39048703, 12856153, 26995428,
                 90947447, 128888971, 98999837, 121288955, 46145292, 40889471, 123818709, 112894380, 66593274, 94623439 >>
           [] chunk = 12 ->
              <<
                 107848008, 113523923, 116148149, 54315835, 44503920, 15168928, 97574199, 103608529, 45170535, 53062019,
                 108847242, 16700263, 9145321, 15498617, 51000851, 4080639, 65135461, 36945926, 76076707, 44686228,
                 46111581, 39135890, 74111236, 59680030, 24726995, 62639422, 64328361, 9371582, 30930125, 133679360,
                 15627620, 92535344, 85459450, 87008588, 6677019, 41879114, 20113383, 129021627, 14055280, 110099801,
                 105275957, 21912612, 110178624, 134025406, 45403946, 41253213, 30592561, 43209744, 55126448, 80804328 >>
           [] chunk = 13 ->
              <<
                 83020376, 132265933, 5378876, 82498051, 110397126, 96099110, 30809564, 76082713, 44550681, 6210932,
                 43990743, 70746524, 114199206, 70484917, 82556677, 79639531, 54819117, 118126744, 9403988, 74472404,
                 107803501, 104243196, 103148441, 122560169, 24295362, 36502810, 12696016, 4261480, 134058249, 23305491,
                 10351313, 118787733, 74780951, 62614369, 102697053, 81931490, 18561640, 11095591, 109745478, 50568360,
                 79726859, 110804927, 107260823, 111889698, 63384213, 73510217, 118902317, 41317746, 104223132, 97943640 >>)


\* The word the generator gives next in state s, and the state after it.
Word(s) == MT19937(s.key, s.pos \div 50)[(s.pos % 50) + 1]
Advance(s) == [s EXCEPT !.pos = @ + 1]

\* random.seed(a) for an int a: the state is a function of abs(a) alone, and
\* nothing has been drawn from it.
SeedState(a) == [key |-> IF a < 0 THEN -a ELSE a, pos |-> 0]

\* Every draw gives [value |-> what the call returns, rng |-> the state after it].

\* name = first; ... : the rest of a block, Rest, evaluated with the value just
\* assigned to a local, which is computed once.
With(first, Rest(_)) == CHOOSE r \in { Rest(v) : v \in {first} } : TRUE

\* random.random(): (a * 2^26 + b) / 2^53 with a = word >> 5 and b = word >> 6
\* of two successive words; the value is kept as the pair <<a, b>>.
Random(s) == [value |-> <<Word(s), Word(Advance(s)) \div 2>>, rng |-> Advance(Advance(s))]

\* u < t for two such pairs
Less(u, t) == u[1] < t[1] \/ (u[1] = t[1] /\ u[2] < t[2])

\* The doubles 0.2, 0.3 and 0.7, by percent: the least <<a, b>> that is not below.
Probability(p) ==
    CASE p = 20 -> <<26843545, 40265319>>
      [] p = 30 -> <<40265318, 26843546>>
      [] p = 70 -> <<93952409, 40265318>>

\* random.random() < p/100, read at state s
RandomBelowPercent(s, p) ==
    With(Random(s), LAMBDA u : [value |-> Less(u.value, Probability(p)), rng |-> u.rng])

\* n.bit_length()
RECURSIVE BitLength(_)
BitLength(n) == IF n = 0 THEN 0 ELSE 1 + BitLength(n \div 2)

\* getrandbits(k) for 0 < k <= 27: the k high bits of one word
GetRandBits(s, k) == [value |-> Word(s) \div (2 ^ (27 - k)), rng |-> Advance(s)]

\* _randbelow(n) for n > 0: getrandbits(n.bit_length()) until the value is below n
RECURSIVE RandBelow(_, _)
RandBelow(s, n) ==
    With(GetRandBits(s, BitLength(n)), LAMBDA r :
        IF r.value >= n THEN RandBelow(r.rng, n) ELSE r)

\* random.randint(a, b), read at state s
RandInt(s, a, b) ==
    With(RandBelow(s, b - a + 1), LAMBDA r : [value |-> a + r.value, rng |-> r.rng])

\* random.choice(seq), read at state s (seq is not empty)
Choice(s, seq) ==
    With(RandBelow(s, Len(seq)), LAMBDA r : [value |-> seq[r.value + 1], rng |-> r.rng])

\* sum(q), the first half and the second half added
RECURSIVE SumSeq(_)
SumSeq(q) ==
    IF q = <<>> THEN 0
    ELSE IF Len(q) = 1 THEN q[1]
    ELSE SumSeq(SubSeq(q, 1, Len(q) \div 2)) + SumSeq(SubSeq(q, (Len(q) \div 2) + 1, Len(q)))

\* list(accumulate(weights)) without its last entry, for the weight lists of the
\* program (in percent): each cumulative double c as the least <<a, b>> with
\* random() * total >= c; the total of every list is the double 1.0.
CumWeights(weights) ==
    CASE weights = <<15, 30, 35, 20>> ->
            << <<20132659, 13421773>>, <<60397977, 40265318>>, <<107374182, 26843545>> >>
      [] weights = <<70, 15, 15>> ->
            << <<93952409, 40265318>>, <<114085068, 53687091>> >>
      [] weights = <<30, 50, 20>> ->
            << <<40265318, 26843546>>, <<107374182, 26843546>> >>
      [] weights = <<10, 20, 30, 25, 15>> ->
            << <<13421772, 53687092>>, <<40265318, 26843546>>, <<80530636, 53687092>>,
               <<114085068, 53687092>> >>
      [] weights = <<25, 25, 25, 20, 5>> ->
            << <<33554432, 0>>, <<67108864, 0>>, <<100663296, 0>>, <<127506841, 40265318>> >>
      [] weights = <<70, 30, 0, 0>> ->
            << <<93952409, 40265318>>, <<134217728, 0>>, <<134217728, 0>> >>
      [] weights = <<30, 50, 20, 0>> ->
            << <<40265318, 26843546>>, <<107374182, 26843546>>, <<134217728, 0>> >>
      [] weights = <<10, 30, 50, 10>> ->
            << <<13421772, 53687092>>, <<53687091, 13421773>>, <<120795955, 13421773>> >>
      [] weights = <<0, 20, 50, 30>> ->
            << <<0, 0>>, <<26843545, 40265319>>, <<93952409, 40265318>> >>
      [] weights = <<0, 0, 30, 70>> ->
            << <<0, 0>>, <<0, 0>>, <<40265318, 26843546>> >>

\* bisect(cum_weights, random() * total, 0, n - 1): the first index whose
\* cumulative weight exceeds the draw, the last index when there is none.
Bisect(s, weights) ==
    With(Random(s), LAMBDA u :
        LET n == Len(weights)
            cum == CumWeights(weights)
            hit == { k \in 1..(n - 1) : Less(u.value, cum[k]) }
        IN [value |-> IF hit = {} THEN n ELSE CHOOSE k \in hit : \A j \in hit : k <= j,
            rng |-> u.rng])

\* random.choices(population, weights = weights)[0], read at state s
Choices(s, population, weights) ==
    With(Bisect(s, weights), LAMBDA at : [value |-> population[at.value], rng |-> at.rng])

-----------------------------------------------------------------------------
(* Formatting *)

DigitChars == <<"0", "1", "2", "3", "4", "5", "6", "7", "8", "9">>

RECURSIVE ToDecimal(_)
ToDecimal(n) == IF n < 10 THEN DigitChars[n + 1]
                ELSE ToDecimal(n \div 10) \o DigitChars[(n % 10) + 1]

RECURSIVE ZeroPad(_, _)
ZeroPad(str, width) == IF Len(str) >= width THEN str ELSE ZeroPad("0" \o str, width)

\* Faulty variant: the index is written without padding.
Format03d_Unpadded(i) == ToDecimal(i)

\* f"{i:03d}" and f"{i:04d}" for i >= 0
Format03d(i) == ZeroPad(ToDecimal(i), 3)
Format04d(i) == ZeroPad(ToDecimal(i), 4)

\* Faulty variant: every instructor id is the first one.
InstructorId_Same(i) == "PROF000"

CourseId(i) == "COURSE" \o Format03d(i)
InstructorId(i) == "PROF" \o Format03d(i)
RoomId(i) == "ROOM" \o Format03d(i)
StudentId(i) == "STU" \o Format04d(i)

-----------------------------------------------------------------------------
(* Class-level tables *)

COURSE_TYPES == <<"full_term", "first_half_term", "second_half_term">>
COURSE_TYPE_WEIGHTS == <<70, 15, 15>>

DEPARTMENTS == <<"Computer Science", "Mathematics", "Statistics", "Economics",
                 "Management Science & Engineering", "Electrical Engineering",
                 "Mechanical Engineering", "Physics", "Chemistry", "Biology">>

LEVELS == <<"100", "200", "300", "400">>
LEVEL_PROBS == <<15, 30, 35, 20>>

\* Faulty variant: every level shares the widest range.
COURSE_LEVELS_Shared ==
    [l \in {"100", "200", "300", "400"} |-> [min_enroll |-> 10, max_enroll |-> 200]]

COURSE_LEVELS ==
    [l \in {"100", "200", "300", "400"} |->
        CASE l = "100" -> [min_enroll |-> 80, max_enroll |-> 200]
          [] l = "200" -> [min_enroll |-> 40, max_enroll |-> 100]
          [] l = "300" -> [min_enroll |-> 20, max_enroll |-> 60]
          [] l = "400" -> [min_enroll |-> 10, max_enroll |-> 30]]

STUDENT_YEAR_NAMES == <<"freshman", "sophomore", "junior", "senior", "graduate">>
STUDENT_YEAR_WEIGHTS == <<25, 25, 25, 20, 5>>

WEEKDAYS == <<"Mon", "Tue", "Wed", "Thu", "Fri">>

-----------------------------------------------------------------------------
(* _generate_course_names *)

NamePrefixes == <<"CS", "MATH", "STAT", "ECON", "MS&E", "EE", "ME", "PHYS", "CHEM", "BIO",
                  "ENGR", "DATA", "HIST", "ENGL", "PSYCH", "SOC", "PHIL">>
NameSuffixes == <<"Introduction", "Advanced", "Theory", "Applications",
                  "Seminar", "Lab", "Workshop", "Project">>

\* One iteration of the loop: the name and the generator state after it.
CourseName(s) ==
    With(Choice(s, NamePrefixes), LAMBDA prefix :
    With(RandInt(prefix.rng, 100, 499), LAMBDA number :
    With(RandomBelowPercent(number.rng, 30), LAMBDA suffixed :
        IF suffixed.value
        THEN With(Choice(suffixed.rng, NameSuffixes), LAMBDA suffix :
                [name |-> prefix.value \o " " \o ToDecimal(number.value)
                              \o ": " \o suffix.value,
                 rng |-> suffix.rng])
        ELSE [name |-> prefix.value \o " " \o ToDecimal(number.value),
              rng |-> suffixed.rng])))

\* The iterations of the loop from index Len(names) to num_courses - 1: one
\* iteration, or the first half of them followed by the rest.
RECURSIVE GenerateCourseNamesFrom(_, _, _)
GenerateCourseNamesFrom(names, num_courses, s) ==
    IF Len(names) >= num_courses THEN [names |-> names, rng |-> s]
    ELSE IF Len(names) + 1 = num_courses
    THEN With(CourseName(s), LAMBDA one : [names |-> Append(names, one.name), rng |-> one.rng])
    ELSE With(GenerateCourseNamesFrom(names, Len(names) + (num_courses - Len(names)) \div 2, s),
              LAMBDA half : GenerateCourseNamesFrom(half.names, num_courses, half.rng))

GenerateCourseNames(num_courses, s) == GenerateCourseNamesFrom(<<>>, num_courses, s)

-----------------------------------------------------------------------------
(* generate_courses *)

\* Faulty variant: the courses are dealt in blocks instead of round robin.
InstructorIdx_Blocks(i, num_instructors) == i \div num_instructors

\* The instructor of the course with index i (round robin).
InstructorIdx(i, num_instructors) == i % num_instructors

\* The draws of the loop body that come before the instructor is assigned:
\* the level, the enrollment and the type.
CourseDraws(s) ==
    With(Choices(s, LEVELS, LEVEL_PROBS), LAMBDA level :
    With(COURSE_LEVELS[level.value], LAMBDA level_info :
    With(RandInt(level.rng, level_info.min_enroll, level_info.max_enroll), LAMBDA enrollment :
    With(Choices(enrollment.rng, COURSE_TYPES, COURSE_TYPE_WEIGHTS), LAMBDA course_type :
        [level |-> level.value, enrollment |-> enrollment.value,
         course_type |-> course_type.value, rng |-> course_type.rng]))))

\* The body of the loop for index i: the course and the generator state after it.
Course(i, name, num_instructors, s) ==
    With(CourseDraws(s), LAMBDA drawn :
    With(IF drawn.level \in {"100", "200"}
         THEN [value |-> 3, rng |-> drawn.rng]
         ELSE With(RandomBelowPercent(drawn.rng, 70), LAMBDA lecture_only :
                [value |-> IF lecture_only.value THEN 3 ELSE 6, rng |-> lecture_only.rng]),
         LAMBDA weekly_hours :
    With(Choice(weekly_hours.rng, DEPARTMENTS), LAMBDA department :
        [course |-> [id |-> CourseId(i),
                     name |-> name,
                     type |-> drawn.course_type,
                     weekly_hours |-> weekly_hours.value,
                     instructor_id |-> InstructorId(InstructorIdx(i, num_instructors)),
                     expected_enrollment |-> drawn.enrollment,
                     level |-> drawn.level,
                     department |-> department.value],
         rng |-> department.rng])))

\* The iterations of the loop from index Len(acc) to num_courses - 1: one
\* iteration, or the first half of them followed by the rest.
RECURSIVE GenerateCoursesFrom(_, _, _, _, _)
GenerateCoursesFrom(acc, names, num_courses, num_instructors, s) ==
    IF Len(acc) >= num_courses THEN [value |-> acc, rng |-> s, error |-> "none"]
    ELSE IF Len(acc) + 1 = num_courses
    THEN With(Course(Len(acc), names[Len(acc) + 1], num_instructors, s), LAMBDA one :
            [value |-> Append(acc, one.course), rng |-> one.rng, error |-> "none"])
    ELSE With(GenerateCoursesFrom(acc, names, Len(acc) + (num_courses - Len(acc)) \div 2,
                                  num_instructors, s),
              LAMBDA half : GenerateCoursesFrom(half.value, names, num_courses,
                                                num_instructors, half.rng))

\* generate_courses(num_courses, num_instructors) called at generator state s:
\* the list, the state after it, and the exception raised if any.
\* i % num_instructors raises ZeroDivisionError in the first iteration when
\* num_instructors = 0; the three draws before it have been consumed.
GenerateCourses(num_courses, num_instructors, s) ==
    With(GenerateCourseNames(num_courses, s), LAMBDA named :
        IF num_courses > 0 /\ num_instructors = 0
        THEN [value |-> <<>>, rng |-> CourseDraws(named.rng).rng,
              error |-> "ZeroDivisionError"]
        ELSE GenerateCoursesFrom(<<>>, named.names, num_courses, num_instructors,
                                 named.rng))

-----------------------------------------------------------------------------
(* generate_instructors *)

FirstNames == <<"Alice", "Bob", "Carol", "David", "Emma", "Frank", "Grace", "Henry",
                "Iris", "Jack", "Karen", "Leo", "Maria", "Nathan", "Olivia", "Peter",
                "Quinn", "Rachel", "Sam", "Tina", "Uma", "Victor", "Wendy", "Xavier",
                "Yuki", "Zoe", "Alex", "Blake", "Casey", "Drew", "Eli", "Fiona">>
LastNames == <<"Anderson", "Brown", "Chen", "Davis", "Evans", "Fischer", "Garcia",
               "Harris", "Ivanov", "Johnson", "Kim", "Lee", "Martinez", "Nguyen",
               "O'Brien", "Patel", "Quinn", "Rodriguez", "Smith", "Taylor", "Ueda",
               "Vargas", "Wang", "Xu", "Yamamoto", "Zhang">>

\* courses_per_instructor.get(inst_id, 0)
CoursesPerInstructor(cs, inst_id) ==
    Cardinality({ k \in 1..Len(cs) : cs[k].instructor_id = inst_id })

\* total_hours_per_instructor.get(inst_id, 0), in half-hours
TotalHoursPerInstructor(cs, inst_id) ==
    SumSeq([k \in 1..Len(cs) |->
                IF cs[k].instructor_id = inst_id THEN cs[k].weekly_hours ELSE 0])

\* required_periods = int(hours_to_teach * 2)
RequiredPeriods(hours_to_teach) == hours_to_teach

Max2(a, b) == IF a >= b THEN a ELSE b
Min2(a, b) == IF a <= b THEN a ELSE b

\* Faulty variant: the buffer is twice the required periods.
MinPeriodsNeeded_Double(required_periods) == Max2(required_periods * 2, 30)

\* min_periods_needed = max(required_periods * 3, 30)
MinPeriodsNeeded(required_periods) == Max2(required_periods * 3, 30)

\* random.sample(population, k) for a population of at most 21 elements:
\* the pool algorithm, one _randbelow per pick.
RECURSIVE SampleFrom(_, _, _, _)
SampleFrom(result, pool, k, s) ==
    IF Len(result) >= k THEN [value |-> result, rng |-> s]
    ELSE With(RandBelow(s, Len(pool) - Len(result)), LAMBDA j :
         With([pool EXCEPT ![j.value + 1] = pool[Len(pool) - Len(result)]], LAMBDA moved :
            SampleFrom(Append(result, pool[j.value + 1]), moved, k, j.rng)))

Sample(population, k, s) == SampleFrom(<<>>, population, k, s)

\* The period_range of one sampled day, as <<first, past the last>>, and the
\* generator state after the one or two draws that choose it.
PeriodRange(num_courses_to_teach, s) ==
    With(RandomBelowPercent(s, 20), LAMBDA morning :
        IF morning.value
        THEN [range |-> IF num_courses_to_teach <= 2 THEN <<0, 12>> ELSE <<0, 18>>,
              rng |-> morning.rng]
        ELSE With(RandomBelowPercent(morning.rng, 20), LAMBDA afternoon :
                IF afternoon.value
                THEN [range |-> IF num_courses_to_teach <= 2 THEN <<6, 20>> ELSE <<0, 18>>,
                      rng |-> afternoon.rng]
                ELSE [range |-> <<0, 20>>, rng |-> afternoon.rng]))

\* The slots appended for one day and a range(lo, hi) of periods.
DaySlots(day, range) ==
    [k \in 1..(range[2] - range[1]) |-> [day |-> day, period_index |-> range[1] + k - 1]]

RECURSIVE InitialAvailability(_, _, _, _)
InitialAvailability(availability, days, num_courses_to_teach, s) ==
    IF days = <<>> THEN [value |-> availability, rng |-> s]
    ELSE With(PeriodRange(num_courses_to_teach, s), LAMBDA w :
         With(availability \o DaySlots(Head(days), w.range), LAMBDA extended :
            InitialAvailability(extended, Tail(days), num_courses_to_teach, w.rng)))

\* Faulty variant: the sampled days are offered again.
RemainingDays_All(available_days) == WEEKDAYS

\* [d for d in ["Mon", ..., "Fri"] if d not in available_days]
RemainingDays(available_days) ==
    SelectSeq(WEEKDAYS, LAMBDA d : \A k \in 1..Len(available_days) : available_days[k] # d)

\* Faulty variant: the top-up loop adds nothing.
TopUp_Skipped(availability, total_available_periods, min_periods_needed, remaining_days) ==
    availability

\* The condition of the top-up loop.
TopUpContinues(total_available_periods, min_periods_needed, remaining_days) ==
    total_available_periods < min_periods_needed /\ remaining_days # <<>>

\* Faulty variant: an extra day ends at 5 pm like a working day.
ExtraDaySlots_Working(extra_day) == DaySlots(extra_day, <<0, 18>>)

\* for period in range(0, 20): availability.append(...) for the extra day
ExtraDaySlots(extra_day) == DaySlots(extra_day, <<0, 20>>)

\* while total_available_periods < min_periods_needed and remaining_days: ...
RECURSIVE TopUp(_, _, _, _)
TopUp(availability, total_available_periods, min_periods_needed, remaining_days) ==
    IF TopUpContinues(total_available_periods, min_periods_needed, remaining_days)
    THEN TopUp(availability \o ExtraDaySlots(Head(remaining_days)),
               total_available_periods + 20, min_periods_needed, Tail(remaining_days))
    ELSE availability

\* The body of the loop for index i: the instructor record (with its _debug
\* field) and the generator state after it.
Instructor(i, cs, s) ==
    With(Choice(s, FirstNames), LAMBDA first :
    With(Choice(first.rng, LastNames), LAMBDA last :
    With(InstructorId(i), LAMBDA inst_id :
    With(CoursesPerInstructor(cs, inst_id), LAMBDA num_courses_to_teach :
    With(TotalHoursPerInstructor(cs, inst_id), LAMBDA hours_to_teach :
    With(MinPeriodsNeeded(RequiredPeriods(hours_to_teach)), LAMBDA min_periods_needed :
    With(Choice(last.rng, <<4, 5>>), LAMBDA num_days_available :
    With(Sample(WEEKDAYS, num_days_available.value, num_days_available.rng),
         LAMBDA available_days :
    With(InitialAvailability(<<>>, available_days.value, num_courses_to_teach,
                             available_days.rng), LAMBDA initial :
    With(IF Len(initial.value) < min_periods_needed
         THEN TopUp(initial.value, Len(initial.value), min_periods_needed,
                    RemainingDays(available_days.value))
         ELSE initial.value, LAMBDA availability :
    With(Choices(initial.rng, <<-1, 0, 1>>, <<30, 50, 20>>), LAMBDA b2b_pref :
    With(RandomBelowPercent(b2b_pref.rng, 30), LAMBDA allow_lunch :
    With(Choice(allow_lunch.rng, DEPARTMENTS), LAMBDA department :
        [instructor |->
            [id |-> inst_id,
             name |-> "Prof. " \o first.value \o " " \o last.value,
             availability |-> availability,
             back_to_back_preference |-> b2b_pref.value,
             allow_lunch_teaching |-> allow_lunch.value,
             department |-> department.value,
             _debug |-> [courses_to_teach |-> num_courses_to_teach,
                         hours_to_teach |-> hours_to_teach,
                         available_periods |-> Len(availability),
                         required_min_periods |-> min_periods_needed]],
         rng |-> department.rng])))))))))))))

\* The iterations of the loop from index Len(acc) to num_instructors - 1: one
\* iteration, or the first half of them followed by the rest.
RECURSIVE GenerateInstructorsFrom(_, _, _, _)
GenerateInstructorsFrom(acc, num_instructors, cs, s) ==
    IF Len(acc) >= num_instructors THEN [value |-> acc, rng |-> s, error |-> "none"]
    ELSE IF Len(acc) + 1 = num_instructors
    THEN With(Instructor(Len(acc), cs, s), LAMBDA one :
            [value |-> Append(acc, one.instructor), rng |-> one.rng, error |-> "none"])
    ELSE With(GenerateInstructorsFrom(acc, Len(acc) + (num_instructors - Len(acc)) \div 2,
                                      cs, s),
              LAMBDA half : GenerateInstructorsFrom(half.value, num_instructors, cs, half.rng))

\* generate_instructors(num_instructors, num_courses, courses) at generator state s
GenerateInstructors(num_instructors, cs, s) == GenerateInstructorsFrom(<<>>, num_instructors, cs, s)

\* The locals of the loop body for index i when line 220 is reached from
\* generator state s: the names, the day count, the days and the windows are drawn.
BeforeTopUp(i, cs, s) ==
    With(Choice(s, FirstNames), LAMBDA first :
    With(Choice(first.rng, LastNames), LAMBDA last :
    With(InstructorId(i), LAMBDA inst_id :
    With(CoursesPerInstructor(cs, inst_id), LAMBDA num_courses_to_teach :
    With(RequiredPeriods(TotalHoursPerInstructor(cs, inst_id)), LAMBDA required_periods :
    With(Choice(last.rng, <<4, 5>>), LAMBDA num_days_available :
    With(Sample(WEEKDAYS, num_days_available.value, num_days_available.rng),
         LAMBDA available_days :
    With(InitialAvailability(<<>>, available_days.value, num_courses_to_teach,
                             available_days.rng), LAMBDA initial :
        [loop |-> "top_up",
         i |-> i,
         inst_id |-> inst_id,
         required_periods |-> required_periods,
         min_periods_needed |-> MinPeriodsNeeded(required_periods),
         available_days |-> available_days.value,
         availability |-> initial.value,
         total_available_periods |-> Len(initial.value),
         remaining_days |-> <<>>,
         rng |-> initial.rng]))))))))

-----------------------------------------------------------------------------
(* generate_classrooms *)

Buildings == <<"Gates", "Huang", "Hewlett", "McCullough", "Littlefield",
               "Meyer", "Jordan", "Skilling", "Mitchell", "Thornton">>

\* capacity_distribution: (cap_min, cap_max) and the weights in percent
CapacityDistribution == << <<20, 30>>, <<30, 50>>, <<50, 80>>, <<80, 120>>, <<120, 250>> >>
CapacityWeights == <<10, 20, 30, 25, 15>>

\* max(q) of a non-empty sequence of numbers
MaxOf(q) == CHOOSE m \in { q[k] : k \in 1..Len(q) } : \A k \in 1..Len(q) : q[k] <= m

\* sorted(q, reverse = True) for a sequence of numbers: q[k] comes after the
\* entries above it and the equal entries before it.
SortedDescending(q) ==
    With([k \in 1..Len(q) |->
             1 + Cardinality({ j \in 1..Len(q) : q[j] > q[k] \/ (q[j] = q[k] /\ j < k) })],
         LAMBDA place : [p \in 1..Len(q) |-> q[CHOOSE k \in 1..Len(q) : place[k] = p]])

\* [c["expected_enrollment"] for c in courses] and [r["capacity"] for r in classrooms]
ExpectedEnrollments(cs) == [k \in 1..Len(cs) |-> cs[k].expected_enrollment]
Capacities(rs) == [k \in 1..Len(rs) |-> rs[k].capacity]

\* course_enrollments and room_capacities: the same, largest first
Enrollments(cs) == SortedDescending(ExpectedEnrollments(cs))
RoomCapacities(rs) == SortedDescending(Capacities(rs))

\* Faulty variant: no room is forced to be large.
ForcedLarge_Never(i) == i < 0

\* Faulty variant: only the first room is forced to be large.
ForcedLarge_OnlyFirst(i) == i < 1

\* Whether the room with index i is one of the rooms forced to be large.
ForcedLarge(i) == i < 3

\* The capacity drawn for the room with index i, and the generator state after it.
Capacity(i, max_enrollment, s) ==
    IF ForcedLarge(i)
    THEN With(RandInt(s, Max2(120, max_enrollment), Max2(250, max_enrollment + 50)),
              LAMBDA capacity : [capacity |-> capacity.value, rng |-> capacity.rng])
    ELSE With(Choices(s, CapacityDistribution, CapacityWeights), LAMBDA bucket :
         With(RandInt(bucket.rng, bucket.value[1], bucket.value[2]), LAMBDA capacity :
            [capacity |-> capacity.value, rng |-> capacity.rng]))

\* The body of the loop for index i.
Classroom(i, max_enrollment, s) ==
    With(Choice(s, Buildings), LAMBDA building :
    With(RandInt(building.rng, 100, 599), LAMBDA room_num :
    With(Capacity(i, max_enrollment, room_num.rng), LAMBDA cap :
        [classroom |-> [id |-> RoomId(i),
                        name |-> building.value \o " " \o ToDecimal(room_num.value),
                        capacity |-> cap.capacity],
         rng |-> cap.rng])))

\* The iterations of the loop from index Len(acc) to num_rooms - 1: one
\* iteration, or the first half of them followed by the rest.
RECURSIVE GenerateClassroomsFrom(_, _, _, _)
GenerateClassroomsFrom(acc, num_rooms, max_enrollment, s) ==
    IF Len(acc) >= num_rooms THEN [value |-> acc, rng |-> s]
    ELSE IF Len(acc) + 1 = num_rooms
    THEN With(Classroom(Len(acc), max_enrollment, s), LAMBDA one :
            [value |-> Append(acc, one.classroom), rng |-> one.rng])
    ELSE With(GenerateClassroomsFrom(acc, Len(acc) + (num_rooms - Len(acc)) \div 2,
                                     max_enrollment, s),
              LAMBDA half : GenerateClassroomsFrom(half.value, num_rooms, max_enrollment,
                                                   half.rng))

\* The enrollments the closing diagnostic reports, in the order it prints
\* them: those above the largest room, room_capacities[0].
CapacityDiagnostic(cs, rs) ==
    SelectSeq(Enrollments(cs), LAMBDA e : e > RoomCapacities(rs)[1])

\* generate_classrooms(num_rooms, courses) at generator state s: the list, the
\* warnings printed, the state after it, and the exception raised if any.
\* max() of an empty catalog raises ValueError before any draw;
\* room_capacities[0] raises IndexError after the loop when no room was made.
GenerateClassrooms(num_rooms, cs, s) ==
    IF cs = <<>>
    THEN [value |-> <<>>, printed |-> <<>>, rng |-> s, error |-> "ValueError"]
    ELSE With(MaxOf(ExpectedEnrollments(cs)), LAMBDA max_enrollment :
         With(GenerateClassroomsFrom(<<>>, num_rooms, max_enrollment, s), LAMBDA made :
            IF made.value = <<>>
            THEN [value |-> <<>>, printed |-> <<>>, rng |-> made.rng, error |-> "IndexError"]
            ELSE [value |-> made.value, printed |-> CapacityDiagnostic(cs, made.value),
                  rng |-> made.rng, error |-> "none"]))

-----------------------------------------------------------------------------
(* generate_students *)

StudentNames == <<"Emma", "Liam", "Olivia", "Noah", "Ava", "Ethan", "Sophia", "Mason",
                  "Isabella", "William", "Mia", "James", "Charlotte", "Benjamin", "Amelia",
                  "Lucas", "Harper", "Henry", "Evelyn", "Alexander", "Abigail", "Michael",
                  "Emily", "Daniel", "Elizabeth", "Matthew", "Sofia", "Jackson", "Avery",
                  "Sebastian", "Ella", "Jack", "Scarlett", "Aiden", "Grace", "Owen", "Chloe",
                  "Samuel", "Victoria", "David", "Riley", "Joseph", "Aria", "Carter", "Lily">>

\* level_probs of a year, as weights over LEVELS in percent
LevelProbs(year) ==
    CASE year = "freshman"  -> <<70, 30, 0, 0>>
      [] year = "sophomore" -> <<30, 50, 20, 0>>
      [] year = "junior"    -> <<10, 30, 50, 10>>
      [] year = "senior"    -> <<0, 20, 50, 30>>
      [] OTHER              -> <<0, 0, 30, 70>>

\* The choices offered for num_courses_to_take
CourseCountChoices(year) == IF year = "graduate" THEN <<2, 3, 4>> ELSE <<3, 4, 5>>

\* list.remove(x): the list without the first element equal to x
RemoveFirst(q, x) ==
    LET at == { k \in 1..Len(q) : q[k] = x }
        first == CHOOSE k \in at : \A j \in at : k <= j
    IN IF at = {} THEN q
       ELSE [k \in 1..(Len(q) - 1) |-> IF k < first THEN q[k] ELSE q[k + 1]]

\* Faulty variant: the chosen course stays in the pool.
AfterPick_Kept(available_courses, course) == available_courses

\* The pool left to a student after a pick.
AfterPick(available_courses, course) == RemoveFirst(available_courses, course)

\* Faulty variant: the drawn level is ignored.
Candidates_Any(available_courses, level) == available_courses

\* candidates: the remaining courses of the drawn level, or every remaining
\* course when there is none of that level.
Candidates(available_courses, level) ==
    LET at_level == SelectSeq(available_courses, LAMBDA c : c.level = level)
    IN IF at_level = <<>> THEN available_courses ELSE at_level

\* for _ in range(num_courses_to_take): ... ; left counts the iterations to go.
RECURSIVE Enroll(_, _, _, _, _)
Enroll(enrolled_courses, available_courses, left, level_probs, s) ==
    IF left = 0 \/ available_courses = <<>>
    THEN [value |-> enrolled_courses, rng |-> s, pool |-> available_courses]
    ELSE With(Choices(s, LEVELS, level_probs), LAMBDA level :
         With(Candidates(available_courses, level.value), LAMBDA candidates :
         With(Choice(level.rng, candidates), LAMBDA course :
         With(AfterPick(available_courses, course.value), LAMBDA remaining :
            Enroll(Append(enrolled_courses, course.value.id), remaining,
                   left - 1, level_probs, course.rng)))))

\* Faulty variant: the pool is the catalog itself, so the removals reach it.
CatalogAfter_Aliased(cs, pool) == pool

\* available_courses = courses.copy(): the removals act on the copy; `pool` is
\* what is left of it, the catalog is as it was given.
CatalogAfter(cs, pool) == cs

\* The body of the loop for index i: the student, the generator state and the
\* catalog after it.
Student(i, cs, s) ==
    With(Choices(s, STUDENT_YEAR_NAMES, STUDENT_YEAR_WEIGHTS), LAMBDA year :
    With(Choice(year.rng, CourseCountChoices(year.value)), LAMBDA num_courses_to_take :
    With(LevelProbs(year.value), LAMBDA level_probs :
    With(Enroll(<<>>, cs, num_courses_to_take.value, level_probs,
                num_courses_to_take.rng), LAMBDA enrolled :
    With(Choice(enrolled.rng, StudentNames), LAMBDA name :
        [student |-> [id |-> StudentId(i),
                      name |-> name.value \o " " \o ToDecimal(i),
                      year |-> year.value,
                      enrolled_course_ids |-> enrolled.value],
         rng |-> name.rng,
         courses |-> CatalogAfter(cs, enrolled.pool)])))))

\* The iterations of the loop from index Len(acc) to num_students - 1: one
\* iteration, or the first half of them followed by the rest.
RECURSIVE GenerateStudentsFrom(_, _, _, _)
GenerateStudentsFrom(acc, num_students, cs, s) ==
    IF Len(acc) >= num_students THEN [value |-> acc, rng |-> s, courses |-> cs]
    ELSE IF Len(acc) + 1 = num_students
    THEN With(Student(Len(acc), cs, s), LAMBDA one :
            [value |-> Append(acc, one.student), rng |-> one.rng, courses |-> one.courses])
    ELSE With(GenerateStudentsFrom(acc, Len(acc) + (num_students - Len(acc)) \div 2, cs, s),
              LAMBDA half : GenerateStudentsFrom(half.value, num_students, half.courses,
                                                 half.rng))

\* generate_students(num_students, courses) at generator state s: the list,
\* the state after it, and the caller's catalog after the call.
GenerateStudents(num_students, cs, s) == GenerateStudentsFrom(<<>>, num_students, cs, s)

-----------------------------------------------------------------------------
(* _check_feasibility: the four checks, as the issues each appends *)

\* Check 1: one issue per course above the largest room.
Check1Issues(cs, max_room_capacity) ==
    LET over == SelectSeq(cs, LAMBDA c : c.expected_enrollment > max_room_capacity)
    IN [k \in 1..Len(over) |->
            [check |-> 1, subject |-> over[k].id,
             has |-> over[k].expected_enrollment, limit |-> max_room_capacity]]

\* The keys of courses_by_instructor, in insertion order: `keys`, then the
\* instructor of every course that is the first to name one not among them.
InstructorKeys(cs, keys) ==
    With(SelectSeq([k \in 1..Len(cs) |-> k],
                   LAMBDA k : /\ \A j \in 1..Len(keys) : keys[j] # cs[k].instructor_id
                              /\ \A j \in 1..(k - 1) : cs[j].instructor_id # cs[k].instructor_id),
         LAMBDA first : keys \o [j \in 1..Len(first) |-> cs[first[j]].instructor_id])

\* instructor_dict = {i["id"]: i for i in instructors}: the last record of an id.
HasInstructor(ins, inst_id) == \E k \in 1..Len(ins) : ins[k].id = inst_id
InstructorDict(ins, inst_id) ==
    ins[CHOOSE k \in 1..Len(ins) :
            /\ ins[k].id = inst_id
            /\ \A j \in 1..Len(ins) : ins[j].id = inst_id => j <= k]

\* Faulty variant: availability equal to the requirement is reported too.
TooLittleAvailability_OrEqual(available_periods, required_hours) ==
    available_periods <= required_hours * 3

\* available_hours < min_required_availability, both sides doubled:
\* available_periods * 0.5 < required_hours * 3.
TooLittleAvailability(available_periods, required_hours) ==
    available_periods < required_hours * 3

\* Check 2: the loop over courses_by_instructor.items(); instructor_dict[inst_id]
\* raises KeyError at the first key that names no instructor, and the issues
\* appended before it stay in the list.
\* The iterations are taken one at a time, or as the first half of them
\* followed, unless that raised, by the rest.
RECURSIVE Check2Loop(_, _, _, _)
Check2Loop(keys, cs, ins, issues) ==
    IF keys = <<>> THEN [issues |-> issues, error |-> "none"]
    ELSE IF Len(keys) > 1
    THEN With(Check2Loop(SubSeq(keys, 1, Len(keys) \div 2), cs, ins, issues), LAMBDA half :
            IF half.error # "none" THEN half
            ELSE Check2Loop(SubSeq(keys, (Len(keys) \div 2) + 1, Len(keys)), cs, ins,
                            half.issues))
    ELSE IF ~HasInstructor(ins, Head(keys)) THEN [issues |-> issues, error |-> "KeyError"]
    ELSE LET instructor == InstructorDict(ins, Head(keys))
             available_periods == Len(instructor.availability)
             required_hours == TotalHoursPerInstructor(cs, Head(keys))
         IN [issues |-> IF TooLittleAvailability(available_periods, required_hours)
                        THEN Append(issues, [check |-> 2, subject |-> Head(keys),
                                             has |-> available_periods,
                                             limit |-> required_hours * 3])
                        ELSE issues,
             error |-> "none"]

TotalCourseHours(cs) == SumSeq([k \in 1..Len(cs) |-> cs[k].weekly_hours])
\* Faulty variant: the availability is summed in hours against a load in half-hours.
TotalAvailablePeriods_InHours(ins) ==
    SumSeq([k \in 1..Len(ins) |-> Len(ins[k].availability)]) \div 2

TotalAvailablePeriods(ins) == SumSeq([k \in 1..Len(ins) |-> Len(ins[k].availability)])

\* Check 3: total_available_hours < total_course_hours * 3, both sides doubled.
Check3Issues(cs, ins) ==
    IF TotalAvailablePeriods(ins) < TotalCourseHours(cs) * 3
    THEN << [check |-> 3, subject |-> "total",
             has |-> TotalAvailablePeriods(ins), limit |-> TotalCourseHours(cs) * 3] >>
    ELSE <<>>

NumDays == 5
NumPeriods == 24
SlotsPerWeek == NumDays * NumPeriods

\* sessions_per_week (computed by the code and never used)
SessionsPerWeek(cs) ==
    SumSeq([k \in 1..Len(cs) |->
                IF cs[k].type = "full_term" THEN 1
                ELSE IF cs[k].type \in {"first_half_term", "second_half_term"} THEN 2 ELSE 0])

\* total_periods_needed = sum(weekly_hours * 2)
TotalPeriodsNeeded(cs) == TotalCourseHours(cs)

\* Faulty variant: a utilization of exactly 0.5 is reported too.
HighUtilization_AtLeast(total_periods_needed, rooms) ==
    2 * total_periods_needed >= SlotsPerWeek * rooms

\* utilization > 0.5 with utilization = total_periods_needed / (slots_per_week * rooms),
\* for rooms > 0: both sides multiplied by 2 * slots_per_week * rooms.
HighUtilization(total_periods_needed, rooms) ==
    2 * total_periods_needed > SlotsPerWeek * rooms

Check4Issues(cs, rs) ==
    IF HighUtilization(TotalPeriodsNeeded(cs), Len(rs))
    THEN << [check |-> 4, subject |-> "utilization",
             has |-> TotalPeriodsNeeded(cs), limit |-> SlotsPerWeek * Len(rs)] >>
    ELSE <<>>

-----------------------------------------------------------------------------
(* generate_complete_input: dates, statistics, clean-up and assembly *)

DaysInMonth2025 == <<31, 28, 31, 30, 31, 30, 31, 31, 30, 31, 30, 31>>

\* The days of a month in the Gregorian calendar
DaysInMonth(year, month) ==
    IF month = 2 /\ year % 4 = 0 /\ (year % 100 # 0 \/ year % 400 = 0)
    THEN 29 ELSE DaysInMonth2025[month]

\* The date `day` days after the last day of month `month - 1` of `year`, as
\* strftime("%Y-%m-%d") writes it; day may be negative or past the month's end
\* (dates of the years 1000 to 9999).
RECURSIVE DateOf(_, _, _)
DateOf(year, month, day) ==
    IF day < 1
    THEN IF month = 1 THEN DateOf(year - 1, 12, day + DaysInMonth(year - 1, 12))
         ELSE DateOf(year, month - 1, day + DaysInMonth(year, month - 1))
    ELSE IF day > DaysInMonth(year, month)
         THEN IF month = 12 THEN DateOf(year + 1, 1, day - DaysInMonth(year, month))
              ELSE DateOf(year, month + 1, day - DaysInMonth(year, month))
         ELSE ToDecimal(year) \o "-" \o ZeroPad(ToDecimal(month), 2)
              \o "-" \o ZeroPad(ToDecimal(day), 2)

\* start_date = datetime(2025, 1, 6), as "%Y-%m-%d"
SemesterStartDate == DateOf(2025, 1, 6)
\* end_date = start_date + timedelta(weeks = num_weeks) - timedelta(days = 1)
SemesterEndDate(num_weeks) == DateOf(2025, 1, 6 + 7 * num_weeks - 1)

TermConfig(num_weeks) ==
    [num_weeks |-> num_weeks,
     days |-> WEEKDAYS,
     period_length_minutes |-> 30,
     day_start_time |-> "08:00",
     day_end_time |-> "20:00",
     lunch_start_time |-> "12:00",
     lunch_end_time |-> "13:00",
     semester_start_date |-> SemesterStartDate,
     semester_end_date |-> SemesterEndDate(num_weeks)]

\* total_enrollment = sum(len(s["enrolled_course_ids"]) for s in students)
TotalEnrollment(ss) == SumSeq([k \in 1..Len(ss) |-> Len(ss[k].enrolled_course_ids)])

\* Faulty variant: every ordered pair of a student's courses is counted.
ConflictCount_Ordered(ss) ==
    SumSeq([k \in 1..Len(ss) |->
        Len(ss[k].enrolled_course_ids) * (Len(ss[k].enrolled_course_ids) - 1)])

\* conflict_count: sum of len * (len - 1) // 2
ConflictCount(ss) ==
    SumSeq([k \in 1..Len(ss) |->
        (Len(ss[k].enrolled_course_ids) * (Len(ss[k].enrolled_course_ids) - 1)) \div 2])

\* Faulty variant: the records are emitted as they were generated.
StripDebug_Kept(ins) == ins

\* del instructor["_debug"] for every instructor that has one
StripDebug(ins) ==
    [k \in 1..Len(ins) |-> [f \in (DOMAIN ins[k]) \ {"_debug"} |-> ins[k][f]]]

Description(a) ==
    "Large-scale scheduling input: " \o ToDecimal(a.num_courses) \o " courses, "
    \o ToDecimal(a.num_instructors) \o " instructors, "
    \o ToDecimal(a.num_students) \o " students"

\* input_data; avg_courses_per_student is kept as the pair it is the quotient of.
InputData(a, cs, ins, rs, ss, st, now) ==
    [term_config |-> TermConfig(a.num_weeks),
     classrooms |-> rs,
     instructors |-> ins,
     courses |-> cs,
     students |-> ss,
     conflict_weights |-> [global_student_conflict_weight |-> 1,
                           instructor_compactness_weight |-> 1,
                           preferred_time_slots_weight |-> 1],
     metadata |-> [generated_at |-> now,
                   generator_version |-> "1.0",
                   description |-> Description(a),
                   feasibility_checked |-> TRUE,
                   statistics |-> [num_courses |-> a.num_courses,
                                   num_instructors |-> a.num_instructors,
                                   num_rooms |-> a.num_rooms,
                                   num_students |-> a.num_students,
                                   total_enrollments |-> st.total_enrollment,
                                   avg_courses_per_student |-> st.avg_courses_per_student,
                                   potential_conflicts |-> st.conflict_count]]]

-----------------------------------------------------------------------------
(* The state machine *)

Generators == {1, 2}
NoSeed == -1
NoArgs == [num_courses |-> 0, num_instructors |-> 0, num_rooms |-> 0,
           num_students |-> 0, num_weeks |-> 0]
\* checked counts the checks that have completed.
NoCheck == [issues |-> <<>>, checked |-> 0, max_room_capacity |-> 0, sessions_per_week |-> 0]
NoStats == [total_enrollment |-> 0, avg_courses_per_student |-> <<0, 1>>, conflict_count |-> 0]
NoCall == [gen |-> 0, fn |-> "none", clean |-> FALSE]
NoFrame == [loop |-> "none"]

\* The process before any generator exists.  The random module has seeded its
\* generator from the operating system when it was imported: the state is any
\* state, here the start of any of the tabulated streams.
Init ==
    /\ rng \in { SeedState(a) : a \in 0..MaxSeed }
    /\ clock = 0
    /\ seedOf = [g \in Generators |-> NoSeed]
    /\ lastOp = [op |-> "none", gen |-> 0]
    /\ pc = "idle"
    /\ call = NoCall
    /\ args = NoArgs
    /\ courses = <<>>
    /\ instructors = <<>>
    /\ classrooms = <<>>
    /\ students = <<>>
    /\ printed = <<>>
    /\ chk = NoCheck
    /\ stats = NoStats
    /\ error = "none"
    /\ docs = <<>>
    /\ frame = NoFrame

\* Faulty variant: the constructor does not seed the generator.
Seeded_NotApplied(seed, current) == current

\* What random.seed(seed) makes of the process-wide generator state `current`.
Seeded(seed, current) == SeedState(seed)

\* LargeScaleInputGenerator(seed): seeds the process-wide generator; the object
\* itself keeps nothing (seedOf only remembers what it was given).
Construct(g, seed) ==
    /\ pc = "idle"
    /\ seedOf[g] = NoSeed
    /\ rng' = Seeded(seed, rng)
    /\ seedOf' = [seedOf EXCEPT ![g] = seed]
    /\ lastOp' = [op |-> "construct", gen |-> g]
    /\ UNCHANGED <<frame, clock, pc, call, args, courses, instructors, classrooms, students,
                   printed, chk, stats, error, docs>>

\* g.generate_complete_input(...) is entered: the frame is fresh.  An object
\* can be run any number of times (generate_multiple_scenarios runs it three
\* times in a row); each run draws from the state the process-wide generator
\* is in when it starts.
StartGenerate(g, a) ==
    /\ pc = "idle"
    /\ seedOf[g] # NoSeed
    /\ pc' = "courses"
    /\ call' = [gen |-> g, fn |-> "generate_complete_input",
                clean |-> (lastOp = [op |-> "construct", gen |-> g])]
    /\ lastOp' = [op |-> "generate", gen |-> g]
    /\ args' = a
    /\ courses' = <<>>
    /\ instructors' = <<>>
    /\ classrooms' = <<>>
    /\ students' = <<>>
    /\ printed' = <<>>
    /\ chk' = NoCheck
    /\ stats' = NoStats
    /\ error' = "none"
    /\ UNCHANGED <<frame, rng, clock, seedOf, docs>>

\* An exception leaves the call: nothing is returned.
Raise(e) == pc' = "raised" /\ error' = e

StepCourses ==
    /\ pc = "courses"
    /\ \E r \in { GenerateCourses(args.num_courses, args.num_instructors, rng) } :
          /\ rng' = r.rng
          /\ IF r.error = "none"
             THEN courses' = r.value /\ pc' = "instructors" /\ error' = error
             ELSE courses' = courses /\ Raise(r.error)
    /\ UNCHANGED <<frame, clock, seedOf, lastOp, call, args, instructors, classrooms, students,
                   printed, chk, stats, docs>>

StepInstructors ==
    /\ pc = "instructors"
    /\ \E r \in { GenerateInstructors(args.num_instructors, courses, rng) } :
          rng' = r.rng /\ instructors' = r.value
    /\ pc' = IF call.fn = "generate_instructors" THEN "returned" ELSE "classrooms"
    /\ UNCHANGED <<frame, clock, seedOf, lastOp, call, args, courses, classrooms, students,
                   printed, chk, stats, error, docs>>

StepClassrooms ==
    /\ pc = "classrooms"
    /\ \E r \in { GenerateClassrooms(args.num_rooms, courses, rng) } :
          /\ rng' = r.rng
          /\ IF r.error = "none"
             THEN classrooms' = r.value /\ printed' = r.printed
                  /\ pc' = (IF call.fn = "generate_classrooms" THEN "returned" ELSE "students")
                  /\ error' = error
             ELSE classrooms' = classrooms /\ printed' = printed /\ Raise(r.error)
    /\ UNCHANGED <<frame, clock, seedOf, lastOp, call, args, courses, instructors, students,
                   chk, stats, docs>>

StepStudents ==
    /\ pc = "students"
    /\ \E r \in { GenerateStudents(args.num_students, courses, rng) } :
          rng' = r.rng /\ students' = r.value /\ courses' = r.courses
    /\ pc' = IF call.fn = "generate_students" THEN "returned" ELSE "check1"
    /\ UNCHANGED <<frame, clock, seedOf, lastOp, call, args, instructors, classrooms,
                   printed, chk, stats, error, docs>>

\* Check 1; max() of an empty classroom list raises ValueError.
StepCheck1 ==
    /\ pc = "check1"
    /\ IF classrooms = <<>>
       THEN chk' = chk /\ Raise("ValueError")
       ELSE /\ chk' = [chk EXCEPT !.max_room_capacity = MaxOf(Capacities(classrooms)),
                                  !.issues = Check1Issues(courses, MaxOf(Capacities(classrooms))),
                                  !.checked = 1]
            /\ pc' = "check2" /\ error' = error
    /\ UNCHANGED <<frame, rng, clock, seedOf, lastOp, call, args, courses, instructors, classrooms,
                   students, printed, stats, docs>>

StepCheck2 ==
    /\ pc = "check2"
    /\ LET r == Check2Loop(InstructorKeys(courses, <<>>), courses, instructors, chk.issues)
       IN /\ chk' = [chk EXCEPT !.issues = r.issues,
                                !.checked = IF r.error = "none" THEN 2 ELSE 1]
          /\ IF r.error = "none" THEN pc' = "check3" /\ error' = error ELSE Raise(r.error)
    /\ UNCHANGED <<frame, rng, clock, seedOf, lastOp, call, args, courses, instructors, classrooms,
                   students, printed, stats, docs>>

StepCheck3 ==
    /\ pc = "check3"
    /\ chk' = [chk EXCEPT !.issues = chk.issues \o Check3Issues(courses, instructors),
                          !.checked = 3]
    /\ pc' = "check4"
    /\ UNCHANGED <<frame, rng, clock, seedOf, lastOp, call, args, courses, instructors, classrooms,
                   students, printed, stats, error, docs>>

\* Faulty variant: the fourth check is passed over.
StepCheck4_Skipped ==
    /\ pc = "check4"
    /\ pc' = "report"
    /\ UNCHANGED <<frame, rng, clock, seedOf, lastOp, call, args, courses, instructors,
                   classrooms, students, printed, chk, stats, error, docs>>

\* Check 4; the division by slots_per_week * len(classrooms) raises
\* ZeroDivisionError when there is no classroom.
StepCheck4 ==
    /\ pc = "check4"
    /\ IF SlotsPerWeek * Len(classrooms) = 0
       THEN chk' = [chk EXCEPT !.sessions_per_week = SessionsPerWeek(courses)]
            /\ Raise("ZeroDivisionError")
       ELSE /\ chk' = [chk EXCEPT !.sessions_per_week = SessionsPerWeek(courses),
                                  !.issues = chk.issues \o Check4Issues(courses, classrooms),
                                  !.checked = 4]
            /\ pc' = "report" /\ error' = error
    /\ UNCHANGED <<frame, rng, clock, seedOf, lastOp, call, args, courses, instructors, classrooms,
                   students, printed, stats, docs>>

\* The closing report: with no issue it prints the availability ratio, a
\* division by total_course_hours that raises ZeroDivisionError when that is 0.
StepReport ==
    /\ pc = "report"
    /\ IF chk.issues = <<>> /\ TotalCourseHours(courses) = 0
       THEN Raise("ZeroDivisionError")
       ELSE /\ pc' = IF call.fn = "_check_feasibility" THEN "returned" ELSE "statistics"
            /\ error' = error
    /\ UNCHANGED <<frame, rng, clock, seedOf, lastOp, call, args, courses, instructors, classrooms,
                   students, printed, chk, stats, docs>>

\* The statistics; total_enrollment / num_students raises ZeroDivisionError
\* when num_students = 0.
StepStatistics ==
    /\ pc = "statistics"
    /\ IF args.num_students = 0
       THEN stats' = [stats EXCEPT !.total_enrollment = TotalEnrollment(students)]
            /\ Raise("ZeroDivisionError")
       ELSE /\ stats' = [total_enrollment |-> TotalEnrollment(students),
                         avg_courses_per_student |-> <<TotalEnrollment(students), args.num_students>>,
                         conflict_count |-> ConflictCount(students)]
            /\ pc' = "assemble" /\ error' = error
    /\ UNCHANGED <<frame, rng, clock, seedOf, lastOp, call, args, courses, instructors, classrooms,
                   students, printed, chk, docs>>

\* The clean-up of the instructors, the assembly (datetime.now() is read: the
\* local wall clock, which can be set back between two readings) and the return.
StepAssemble ==
    /\ pc = "assemble"
    /\ \E now \in 0..MaxClock :
          /\ clock' = now
          /\ instructors' = StripDebug(instructors)
          /\ docs' = Append(docs,
                [gen |-> call.gen, seed |-> seedOf[call.gen], clean |-> call.clean, args |-> args,
                 doc |-> InputData(args, courses, StripDebug(instructors), classrooms,
                                   students, stats, now)])
    /\ pc' = "idle"
    /\ UNCHANGED <<frame, rng, seedOf, lastOp, call, args, courses, classrooms, students,
                   printed, chk, stats, error>>

-----------------------------------------------------------------------------
(* main(): one generator; either one run, of any counts up to the bounds, or  *)
(* generate_multiple_scenarios, which runs the object once per scenario       *)

\* num_weeks: 10 as in the scenarios and 14, the default of --weeks.
Weeks == {10, 14}

ArgsUpTo(c, i, r, s) ==
    [num_courses : 0..c, num_instructors : 0..i, num_rooms : 0..r,
     num_students : 0..s, num_weeks : Weeks]

\* The scenarios of generate_multiple_scenarios: medium_scale, large_scale and
\* very_large_scale, all of 10 weeks.
SCENARIOS ==
    << [num_courses |-> 50, num_instructors |-> 30, num_rooms |-> 35, num_students |-> 1000,
        num_weeks |-> 10],
       [num_courses |-> 75, num_instructors |-> 40, num_rooms |-> 50, num_students |-> 1500,
        num_weeks |-> 10],
       [num_courses |-> 100, num_instructors |-> 50, num_rooms |-> 60, num_students |-> 2000,
        num_weeks |-> 10] >>

\* for scenario in scenarios: self.generate_complete_input(...) on the one
\* object g.  The run of a scenario starts when the runs of the scenarios
\* before it have returned their documents, from the generator state the last
\* of them left.
StartScenario(g) ==
    /\ Len(docs) < Len(SCENARIOS)
    /\ \A k \in 1..Len(docs) : docs[k].gen = g /\ docs[k].args = SCENARIOS[k]
    /\ StartGenerate(g, SCENARIOS[Len(docs) + 1])

\* --seed: its default, the seed for which the scenarios are followed.
DefaultSeed == 42

Next ==
    \/ \E seed \in (0..MaxSeed) \cup {DefaultSeed} : Construct(1, seed)
    \/ \E a \in ArgsUpTo(MaxCourses, MaxInstructors, MaxRooms, MaxStudents) :
          docs = <<>> /\ StartGenerate(1, a)
    \/ seedOf[1] = DefaultSeed /\ StartScenario(1)
    \/ StepCourses
    \/ StepInstructors
    \/ StepClassrooms
    \/ StepStudents
    \/ StepCheck1
    \/ StepCheck2
    \/ StepCheck3
    \/ StepCheck4
    \/ StepReport
    \/ StepStatistics
    \/ StepAssemble

Spec == Init /\ [][Next]_vars

-----------------------------------------------------------------------------
(* Two generators in one process, constructed and run in any order, each any  *)
(* number of times up to MaxTwoRuns runs in all                              *)

MaxTwoSeed == 1
MaxTwoCourses == 2
MaxTwoRuns == 3

TwoArgs ==
    [num_courses : {MaxTwoCourses}, num_instructors : {1}, num_rooms : {1},
     num_students : {1}, num_weeks : {10}]

NextTwo ==
    \/ \E g \in Generators, seed \in 0..MaxTwoSeed : Construct(g, seed)
    \/ \E g \in Generators, a \in TwoArgs : Len(docs) < MaxTwoRuns /\ StartGenerate(g, a)
    \/ StepCourses
    \/ StepInstructors
    \/ StepClassrooms
    \/ StepStudents
    \/ StepCheck1
    \/ StepCheck2
    \/ StepCheck3
    \/ StepCheck4
    \/ StepReport
    \/ StepStatistics
    \/ StepAssemble

SpecTwo == Init /\ [][NextTwo]_vars

-----------------------------------------------------------------------------
(* Direct calls of one method with a given catalog.  The catalogs are built  *)
(* by InputCatalog: n courses, the first `labs` of them 3.0 h and the rest   *)
(* 1.5 h, owned round robin by `owners` instructor ids, the levels cycling.  *)

InputCourse(k, labs, owners, enrollment) ==
    [id |-> CourseId(k),
     name |-> "CS 101",
     type |-> IF k % 2 = 0 THEN "full_term" ELSE "first_half_term",
     weekly_hours |-> IF k < labs THEN 6 ELSE 3,
     instructor_id |-> InstructorId(k % owners),
     expected_enrollment |-> enrollment,
     level |-> LEVELS[(k % 4) + 1],
     department |-> "Computer Science"]

InputCatalog(n, labs, owners, enrollment) ==
    [k \in 1..n |-> InputCourse(k - 1, labs, owners, enrollment)]

\* A generator exists (constructed with `seed`), one of its methods has been
\* entered and has reached `at` with the process-wide generator in state s.
InitCallAt(fn, at, seed, s) ==
    /\ rng = s
    /\ clock = 0
    /\ seedOf = [g \in Generators |-> IF g = 1 THEN seed ELSE NoSeed]
    /\ lastOp = [op |-> "construct", gen |-> 1]
    /\ pc = at
    /\ call = [gen |-> 1, fn |-> fn, clean |-> TRUE]
    /\ printed = <<>>
    /\ chk = NoCheck
    /\ stats = NoStats
    /\ error = "none"
    /\ docs = <<>>

\* A generator exists (constructed with `seed`) and one of its methods is entered.
InitCall(fn, at, seed) == InitCallAt(fn, at, seed, SeedState(seed))

MaxLoadCourses == 6

\* generate_instructors(num_instructors, num_courses, courses)
InitInstructors ==
    \E seed \in 0..MaxSeed, n \in 0..MaxLoadCourses, owners \in 1..MaxInstructors,
       i \in 0..MaxInstructors :
       \E labs \in 0..n :
          /\ InitCall("generate_instructors", "instructors", seed)
          /\ args = [NoArgs EXCEPT !.num_courses = n, !.num_instructors = i]
          /\ courses = InputCatalog(n, labs, owners, 50)
          /\ instructors = <<>>
          /\ classrooms = <<>>
          /\ students = <<>>
          /\ frame = NoFrame

NextInstructors == StepInstructors

SpecInstructors == InitInstructors /\ [][NextInstructors]_vars

\* generate_students(num_students, courses)
InitStudents ==
    \E seed \in 0..MaxSeed, n \in 0..MaxLoadCourses, s \in 0..MaxStudents :
       /\ InitCall("generate_students", "students", seed)
       /\ args = [NoArgs EXCEPT !.num_courses = n, !.num_students = s]
       /\ courses = InputCatalog(n, 0, 1, 50)
       /\ instructors = <<>>
       /\ classrooms = <<>>
       /\ students = <<>>
       /\ frame = NoFrame

NextStudents == StepStudents

SpecStudents == InitStudents /\ [][NextStudents]_vars

\* generate_classrooms(num_rooms, courses); every course of the catalog has the
\* same enrollment, below, at and above what generate_courses can produce.
EnrollmentSamples == {50, 120, 200, 201, 300}

InitClassrooms ==
    \E seed \in 0..MaxSeed, n \in 0..MaxCourses, r \in 0..MaxRooms,
       enrollment \in EnrollmentSamples :
       /\ InitCall("generate_classrooms", "classrooms", seed)
       /\ args = [NoArgs EXCEPT !.num_courses = n, !.num_rooms = r]
       /\ courses = InputCatalog(n, 0, 1, enrollment)
       /\ instructors = <<>>
       /\ classrooms = <<>>
       /\ students = <<>>
       /\ frame = NoFrame

NextClassrooms == StepClassrooms

SpecClassrooms == InitClassrooms /\ [][NextClassrooms]_vars

\* _check_feasibility(courses, instructors, classrooms, num_weeks)
MaxCheckCourses == 11
MaxCheckInstructors == 2
MaxCheckRooms == 2

\* A whole week of availability, Monday first, 20 periods a day.
RECURSIVE WeekSlots(_)
WeekSlots(days) ==
    IF days = <<>> THEN <<>> ELSE DaySlots(Head(days), <<0, 20>>) \o WeekSlots(Tail(days))

\* The availabilities offered to _check_feasibility: the first n slots of the week.
AvailabilitySamples == {17, 18, 100}

InputInstructor(j, slots) ==
    [id |-> InstructorId(j),
     name |-> "Prof. Alice Anderson",
     availability |-> SubSeq(WeekSlots(WEEKDAYS), 1, slots),
     back_to_back_preference |-> 0,
     allow_lunch_teaching |-> FALSE,
     department |-> "Computer Science"]

InputRoom(j, capacity) == [id |-> RoomId(j), name |-> "Gates 100", capacity |-> capacity]

InitCheck ==
    \E n \in 0..MaxCheckCourses, owners \in 1..MaxCheckInstructors,
       p \in 0..MaxCheckInstructors, q \in 0..MaxCheckRooms, enrollment \in {100, 101} :
       \E labs \in {0, Min2(1, n), n}, slots \in [0..(p - 1) -> AvailabilitySamples] :
          /\ InitCall("_check_feasibility", "check1", 0)
          /\ args \in { [NoArgs EXCEPT !.num_weeks = w] : w \in Weeks }
          /\ courses = InputCatalog(n, labs, owners, enrollment)
          /\ instructors = [j \in 1..p |-> InputInstructor(j - 1, slots[j - 1])]
          /\ classrooms = [j \in 1..q |-> InputRoom(j - 1, 100)]
          /\ students = <<>>
          /\ frame = NoFrame

NextCheck ==
    \/ StepCheck1
    \/ StepCheck2
    \/ StepCheck3
    \/ StepCheck4
    \/ StepReport

SpecCheck == InitCheck /\ [][NextCheck]_vars

-----------------------------------------------------------------------------
(* Properties *)

\* The weekly half-hours of the courses of a catalog that name instructor `id`.
LoadOf(cs, id) ==
    SumSeq([k \in 1..Len(cs) |-> IF cs[k].instructor_id = id THEN cs[k].weekly_hours ELSE 0])

DaysCovered(availability) == { availability[k].day : k \in 1..Len(availability) }

AllWeekdays == {"Mon", "Tue", "Wed", "Thu", "Fri"}

\* C2: every generated instructor with a teaching load has availability (slots
\* times 0.5 h) of at least 3 times the load (slots >= 3 * half-hours of load),
\* unless the availability already covers all five weekdays.
C2_AvailabilityInvariant ==
    \A k \in 1..Len(instructors) :
        LET load == LoadOf(courses, instructors[k].id)
        IN load > 0 =>
              \/ Len(instructors[k].availability) >= 3 * load
              \/ DaysCovered(instructors[k].availability) = AllWeekdays

\* C2 witness: an instructor whose load needs more than four full days (more
\* than 80 slots) and who was given at least 3 times the load.
C2_Witness ==
    \E k \in 1..Len(instructors) :
        LET load == LoadOf(courses, instructors[k].id)
        IN /\ 3 * load > 80
           /\ Len(instructors[k].availability) >= 3 * load

\* C1: in every returned instance some classroom seats the largest course, and
\* neither the diagnostic of generate_classrooms nor Check 1 reports a course
\* above the largest room during a generation run.
C1_CapacityInvariant ==
    /\ \A k \in 1..Len(docs) :
          \E r \in 1..Len(docs[k].doc.classrooms) :
             \A c \in 1..Len(docs[k].doc.courses) :
                docs[k].doc.classrooms[r].capacity >= docs[k].doc.courses[c].expected_enrollment
    /\ call.fn = "generate_complete_input" =>
          /\ printed = <<>>
          /\ \A j \in 1..Len(chk.issues) : chk.issues[j].check # 1

\* C1 witness: a returned instance with more than three rooms, one of them
\* smaller than the largest course.
C1_Witness ==
    \E k \in 1..Len(docs) :
       /\ Len(docs[k].doc.classrooms) > 3
       /\ \E r \in 1..Len(docs[k].doc.classrooms), c \in 1..Len(docs[k].doc.courses) :
             docs[k].doc.classrooms[r].capacity < docs[k].doc.courses[c].expected_enrollment

NoDuplicates(q) == \A i, j \in 1..Len(q) : q[i] = q[j] => i = j

\* C3 as stated: every generated student has between 2 and 5 enrollments, no
\* course twice, whatever the catalog.
C3_EnrollmentBounds_AsStated ==
    \A k \in 1..Len(students) :
        /\ Len(students[k].enrolled_course_ids) >= 2
        /\ Len(students[k].enrolled_course_ids) <= 5
        /\ NoDuplicates(students[k].enrolled_course_ids)

\* C3 amended: with N the number of courses of the catalog (ids pairwise
\* distinct), every generated student has between min(2, N) and min(5, N)
\* enrollments, no course twice.
C3_EnrollmentBounds ==
    \A k \in 1..Len(students) :
        /\ Len(students[k].enrolled_course_ids) >= Min2(2, Len(courses))
        /\ Len(students[k].enrolled_course_ids) <= Min2(5, Len(courses))
        /\ NoDuplicates(students[k].enrolled_course_ids)

\* C3 witness: a student with five enrollments out of a larger catalog.
C3_Witness ==
    \E k \in 1..Len(students) :
        Len(students[k].enrolled_course_ids) = 5 /\ Len(courses) > 5

\* The three (four) decimal digits of an index below 1000 (10000).
Digits3(n) ==
    LET d == <<"0", "1", "2", "3", "4", "5", "6", "7", "8", "9">>
    IN d[((n \div 100) % 10) + 1] \o d[((n \div 10) % 10) + 1] \o d[(n % 10) + 1]
Digits4(n) ==
    LET d == <<"0", "1", "2", "3", "4", "5", "6", "7", "8", "9">>
    IN d[((n \div 1000) % 10) + 1] \o Digits3(n % 1000)

IdsAre(records, n, prefix, digits(_)) ==
    /\ Len(records) = n
    /\ \A k \in 1..Len(records) : records[k].id = prefix \o digits(k - 1)
    /\ \A i, j \in 1..Len(records) : records[i].id = records[j].id => i = j

\* C9: a returned instance has exactly the requested numbers of courses,
\* instructors, classrooms and students, and the k-th record of each collection
\* has the zero-padded id of index k, so the ids of a collection are distinct.
C9_CountsAndIds ==
    \A k \in 1..Len(docs) :
        /\ IdsAre(docs[k].doc.courses, docs[k].args.num_courses, "COURSE", Digits3)
        /\ IdsAre(docs[k].doc.instructors, docs[k].args.num_instructors, "PROF", Digits3)
        /\ IdsAre(docs[k].doc.classrooms, docs[k].args.num_rooms, "ROOM", Digits3)
        /\ IdsAre(docs[k].doc.students, docs[k].args.num_students, "STU", Digits4)

\* C9 witness: a returned instance with several records in every collection.
C9_Witness ==
    \E k \in 1..Len(docs) :
        /\ Len(docs[k].doc.courses) >= 3
        /\ Len(docs[k].doc.instructors) >= 2
        /\ Len(docs[k].doc.classrooms) >= 4
        /\ Len(docs[k].doc.students) >= 2

CoursesOf(cs, id) == Cardinality({ k \in 1..Len(cs) : cs[k].instructor_id = id })

\* C10: the course with index i is given to instructor i mod num_instructors,
\* and the numbers of courses of any two instructors differ by at most one.
C10_RoundRobin ==
    /\ \A k \in 1..Len(courses) :
          courses[k].instructor_id = "PROF" \o Digits3((k - 1) % args.num_instructors)
    /\ \A a, b \in 0..(args.num_instructors - 1) :
          CoursesOf(courses, "PROF" \o Digits3(a)) - CoursesOf(courses, "PROF" \o Digits3(b)) <= 1

\* C10 witness: a catalog that does not divide evenly among the instructors.
C10_Witness ==
    /\ args.num_instructors >= 2
    /\ Len(courses) >= 3
    /\ Len(courses) % args.num_instructors # 0

\* C6 as stated: _check_feasibility never raises, whatever collections it is given.
C6_NeverRaises == call.fn = "_check_feasibility" => error = "none"

IssuesOf(check) == { j \in 1..Len(chk.issues) : chk.issues[j].check = check }

\* C7: once Check 4 has run, a utilization warning is recorded (once) exactly
\* when the periods needed (weekly_hours * 2, summed) exceed 0.5 * 120 * the
\* number of classrooms; at exactly 0.5 none is recorded.
C7_UtilizationWarning ==
    chk.checked >= 4 =>
        LET needed == SumSeq([k \in 1..Len(courses) |-> courses[k].weekly_hours])
        IN Cardinality(IssuesOf(4)) = IF 2 * needed > 120 * Len(classrooms) THEN 1 ELSE 0

\* C7 witness: Check 4 has run, in a call with num_weeks = 14, on courses that
\* need 66 periods for one classroom (a utilization of 0.55) and has recorded
\* the warning.
C7_Witness ==
    /\ chk.checked >= 4
    /\ args.num_weeks = 14
    /\ Len(classrooms) = 1
    /\ SumSeq([k \in 1..Len(courses) |-> courses[k].weekly_hours]) = 66
    /\ Cardinality(IssuesOf(4)) = 1

\* Check 4 has run at a utilization of exactly 0.5 and recorded nothing.
C7_AtHalf ==
    /\ chk.checked >= 4
    /\ classrooms # <<>>
    /\ 2 * SumSeq([k \in 1..Len(courses) |-> courses[k].weekly_hours]) = 120 * Len(classrooms)
    /\ IssuesOf(4) = {}

\* Check 4 has run on courses that need more than 0.5 * 120 periods for each of
\* two classrooms, and recorded nothing for the one classroom short of that.
C7_BelowHalf ==
    /\ chk.checked >= 4
    /\ Len(classrooms) = 2
    /\ SumSeq([k \in 1..Len(courses) |-> courses[k].weekly_hours]) = 66
    /\ IssuesOf(4) = {}

Check2IssuesOf(id) == { j \in IssuesOf(2) : chk.issues[j].subject = id }

\* C8: once Check 2 has run, there is exactly one warning for each instructor
\* who has a course and whose availability (slots * 0.5 h) is below 3 times the
\* hours of their courses, and none for any other instructor.
C8_AvailabilityWarnings ==
    chk.checked >= 2 =>
        /\ \A k \in 1..Len(instructors) :
              Cardinality(Check2IssuesOf(instructors[k].id)) =
                 IF /\ CoursesOf(courses, instructors[k].id) >= 1
                    /\ Len(instructors[k].availability) < 3 * LoadOf(courses, instructors[k].id)
                 THEN 1 ELSE 0
        /\ \A j \in IssuesOf(2) : \E k \in 1..Len(instructors) : instructors[k].id = chk.issues[j].subject

\* C8 witness: Check 2 has run on an instructor exactly at the threshold (no
\* warning) and on another one below it (one warning).
C8_Witness ==
    /\ chk.checked >= 2
    /\ \E k \in 1..Len(instructors) :
          /\ CoursesOf(courses, instructors[k].id) >= 1
          /\ Len(instructors[k].availability) = 3 * LoadOf(courses, instructors[k].id)
          /\ Check2IssuesOf(instructors[k].id) = {}
    /\ \E k \in 1..Len(instructors) : Check2IssuesOf(instructors[k].id) # {}

\* Two entries of docs that are runs in the sense of C4: each a generator
\* constructed with the same seed and then run at once with the same arguments.
SameRun(i, j) ==
    /\ i # j
    /\ docs[i].clean /\ docs[j].clean
    /\ docs[i].seed = docs[j].seed
    /\ docs[i].args = docs[j].args

\* C4 as stated: two runs with the same seed and arguments return identical
\* documents, every metadata field included.
C4_Determinism_AsStated ==
    \A i, j \in 1..Len(docs) : SameRun(i, j) => docs[i].doc = docs[j].doc

WithoutTimestamp(doc) == [doc EXCEPT !.metadata.generated_at = 0]

\* C4 amended: two runs with the same seed and arguments return documents that
\* are identical field for field except for metadata.generated_at.
C4_Determinism ==
    \A i, j \in 1..Len(docs) :
        SameRun(i, j) => WithoutTimestamp(docs[i].doc) = WithoutTimestamp(docs[j].doc)

\* C4 witness: two such runs have returned, at different times.
C4_Witness ==
    \E i, j \in 1..Len(docs) :
        /\ SameRun(i, j)
        /\ docs[i].doc.metadata.generated_at # docs[j].doc.metadata.generated_at

Collections(doc) ==
    [courses |-> doc.courses, instructors |-> doc.instructors,
     classrooms |-> doc.classrooms, students |-> doc.students]

\* C5 as stated: what a generator produces depends only on its own seed and
\* arguments: two generators given the same seed and the same arguments return
\* the same collections, whatever was constructed or run in between.
C5_OwnRandomSource ==
    \A i, j \in 1..Len(docs) :
        (docs[i].seed = docs[j].seed /\ docs[i].args = docs[j].args)
            => Collections(docs[i].doc) = Collections(docs[j].doc)

\* generate_courses has returned the catalog of the running call.
CoursesReturned == pc # "courses" /\ Len(courses) = args.num_courses /\ args.num_instructors > 0

Unassigned(cs, num_instructors) ==
    { a \in 0..(num_instructors - 1) : CoursesOf(cs, "PROF" \o Digits3(a)) = 0 }

\* C11 as stated: whatever counts generate_courses accepts, every instructor
\* index below num_instructors is the instructor of at least one course.
C11_NoUnassigned_AsStated ==
    CoursesReturned => Unassigned(courses, args.num_instructors) = {}

\* C11 amended: when there are at least as many courses as instructors, every
\* instructor index below num_instructors is the instructor of at least one
\* course; with fewer courses, the instructors without a course are exactly
\* those with an index of num_courses or more.
C11_NoUnassigned ==
    CoursesReturned =>
        Unassigned(courses, args.num_instructors) =
            { a \in 0..(args.num_instructors - 1) : a >= args.num_courses }

\* C11 witness: a catalog with more courses than instructors, several instructors.
C11_Witness ==
    /\ CoursesReturned
    /\ args.num_instructors >= 2
    /\ args.num_courses > args.num_instructors
    /\ Unassigned(courses, args.num_instructors) = {}

\* The exceptions the interpreter raises out of an arithmetic or sequence
\* operation; their messages name the operation, not the configuration.
IncidentalFaults == {"ZeroDivisionError", "ValueError", "IndexError", "KeyError"}

\* C12 as stated: a generation run with num_instructors = 0 returns no document
\* and, when it ends in an exception, the exception is one that identifies the
\* configuration problem, not an incidental fault of an operation; and no
\* returned document has a course that names an instructor it does not contain.
C12_ConfigurationError ==
    /\ \A k \in 1..Len(docs) :
          /\ docs[k].args.num_instructors # 0
          /\ \A c \in 1..Len(docs[k].doc.courses) :
                HasInstructor(docs[k].doc.instructors, docs[k].doc.courses[c].instructor_id)
    /\ (call.fn = "generate_complete_input" /\ args.num_instructors = 0 /\ pc = "raised")
          => error \notin IncidentalFaults

-----------------------------------------------------------------------------
(* Generation runs crowded enough for the feasibility checks to find something: *)
(* twenty courses or more for one or two instructors and one or two rooms.     *)

MaxCrowdedCourses == 22

CrowdedArgs ==
    [num_courses : (MaxCrowdedCourses - 2)..MaxCrowdedCourses, num_instructors : {1, 2},
     num_rooms : {1, 2}, num_students : {1}, num_weeks : Weeks]

NextCrowded ==
    \/ \E seed \in 0..MaxSeed : Construct(1, seed)
    \/ \E a \in CrowdedArgs : docs = <<>> /\ StartGenerate(1, a)
    \/ StepCourses
    \/ StepInstructors
    \/ StepClassrooms
    \/ StepStudents
    \/ StepCheck1
    \/ StepCheck2
    \/ StepCheck3
    \/ StepCheck4
    \/ StepReport
    \/ StepStatistics
    \/ StepAssemble

SpecCrowded == Init /\ [][NextCrowded]_vars

\* The list of warnings that comes with a returned run: a field `warnings` of
\* what is returned, of the document or of its metadata; empty when there is none.
WarningsCarried(run) ==
    IF "warnings" \in DOMAIN run THEN run.warnings
    ELSE IF "warnings" \in DOMAIN run.doc THEN run.doc.warnings
    ELSE IF "warnings" \in DOMAIN run.doc.metadata THEN run.doc.metadata.warnings
    ELSE <<>>

\* C13 as stated: when a generation run has returned, the warnings its four
\* checks found (chk.issues) are the entries of a list of warnings attached to
\* the returned document or returned alongside it.
C13_WarningsSurfaced ==
    \A k \in 1..Len(docs) :
        (pc = "idle" /\ docs[k].gen = call.gen) => WarningsCarried(docs[k]) = chk.issues

InstructorFields ==
    {"id", "name", "availability", "back_to_back_preference", "allow_lunch_teaching", "department"}

\* C14: the step that returns a document emits every generated instructor, in
\* order, without its _debug field and with each of its six other fields as
\* generate_instructors made it (the records before the step carry _debug).
C14_DebugStripped ==
    [][(pc = "assemble" /\ pc' = "idle") =>
          LET emitted == docs'[Len(docs')].doc.instructors
          IN /\ Len(emitted) = Len(instructors)
             /\ \A k \in 1..Len(instructors) :
                   /\ DOMAIN instructors[k] = InstructorFields \cup {"_debug"}
                   /\ DOMAIN emitted[k] = InstructorFields
                   /\ \A f \in InstructorFields : emitted[k][f] = instructors[k][f]]_vars

\* C14 witness: a document has been returned whose two instructors differ in
\* availability, and the generator's own records have lost _debug as well.
C14_Witness ==
    \E k \in 1..Len(docs) :
        /\ Len(docs[k].doc.instructors) >= 2
        /\ docs[k].doc.instructors[1].availability # docs[k].doc.instructors[2].availability
        /\ instructors = docs[k].doc.instructors
        /\ \A j \in 1..Len(instructors) : "_debug" \notin DOMAIN instructors[j]

\* The enrollments of a list of students, as (student, position) pairs, and the
\* unordered pairs of enrollments of one student.
EnrollmentsOf(ss) ==
    UNION { { <<s, i>> : i \in 1..Len(ss[s].enrolled_course_ids) } : s \in 1..Len(ss) }
ConflictPairsOf(ss) ==
    UNION { { <<s, p[1], p[2]>> :
                p \in { q \in (1..Len(ss[s].enrolled_course_ids))
                                  \X (1..Len(ss[s].enrolled_course_ids)) : q[1] < q[2] } } :
            s \in 1..Len(ss) }

\* C15: in every returned document the statistics count what the document
\* holds: total_enrollments is the number of enrollments of its students,
\* potential_conflicts the number of unordered pairs of enrollments of one
\* student (the sum of k(k-1)/2), and the four num_ fields are the lengths of
\* the four collections.
C15_Statistics ==
    \A k \in 1..Len(docs) :
        LET d == docs[k].doc
            st == d.metadata.statistics
        IN /\ st.total_enrollments = Cardinality(EnrollmentsOf(d.students))
           /\ st.potential_conflicts = Cardinality(ConflictPairsOf(d.students))
           /\ st.num_courses = Len(d.courses)
           /\ st.num_instructors = Len(d.instructors)
           /\ st.num_rooms = Len(d.classrooms)
           /\ st.num_students = Len(d.students)

\* C15 witness: a returned document with two students who take different
\* numbers of courses, one of them three.
C15_Witness ==
    \E k \in 1..Len(docs) :
        LET ss == docs[k].doc.students
        IN /\ Len(ss) = 2
           /\ Len(ss[1].enrolled_course_ids) # Len(ss[2].enrolled_course_ids)
           /\ \E s \in 1..2 : Len(ss[s].enrolled_course_ids) = 3
           /\ docs[k].doc.metadata.statistics.potential_conflicts >= 3

-----------------------------------------------------------------------------
(* generate_instructors followed through the top-up of one instructor, one    *)
(* iteration of the while loop a step.  The call is entered with a catalog of *)
(* InputCatalog; the iterations 0..i-1 of the for loop have appended their   *)
(* instructors and the body of iteration i has run up to line 220, so the    *)
(* generator is in the state the draws of all of these left.                 *)

InitTopUp ==
    \E seed \in 0..MaxSeed, n \in 0..MaxLoadCourses, owners \in 1..MaxInstructors :
       \E labs \in 0..n, i \in 0..(owners - 1) :
          \E earlier \in { GenerateInstructorsFrom(<<>>, i, InputCatalog(n, labs, owners, 50),
                                                   SeedState(seed)) } :
             \E locals \in { BeforeTopUp(i, InputCatalog(n, labs, owners, 50), earlier.rng) } :
                /\ InitCallAt("generate_instructors", "top_up_if", seed, locals.rng)
                /\ args = [NoArgs EXCEPT !.num_courses = n, !.num_instructors = owners]
                /\ courses = InputCatalog(n, labs, owners, 50)
                /\ instructors = earlier.value
                /\ classrooms = <<>>
                /\ students = <<>>
                /\ frame = locals

\* if total_available_periods < min_periods_needed: remaining_days = [...]
TopUpIf ==
    /\ pc = "top_up_if"
    /\ IF frame.total_available_periods < frame.min_periods_needed
       THEN /\ frame' = [frame EXCEPT !.remaining_days = RemainingDays(frame.available_days)]
            /\ pc' = "top_up_while"
       ELSE /\ frame' = frame
            /\ pc' = "top_up_done"
    /\ UNCHANGED <<rng, clock, seedOf, lastOp, call, args, courses, instructors, classrooms,
                   students, printed, chk, stats, error, docs>>

\* One iteration of the while loop: remaining_days.pop(0), the appends, += 20.
TopUpIteration ==
    /\ pc = "top_up_while"
    /\ TopUpContinues(frame.total_available_periods, frame.min_periods_needed,
                      frame.remaining_days)
    /\ frame' = [frame EXCEPT
                    !.remaining_days = Tail(frame.remaining_days),
                    !.availability = frame.availability \o ExtraDaySlots(Head(frame.remaining_days)),
                    !.total_available_periods = frame.total_available_periods + 20]
    /\ UNCHANGED <<rng, clock, seedOf, lastOp, pc, call, args, courses, instructors,
                   classrooms, students, printed, chk, stats, error, docs>>

\* The condition of the while loop is false: the loop is left.
TopUpExit ==
    /\ pc = "top_up_while"
    /\ ~TopUpContinues(frame.total_available_periods, frame.min_periods_needed,
                       frame.remaining_days)
    /\ pc' = "top_up_done"
    /\ UNCHANGED <<frame, rng, clock, seedOf, lastOp, call, args, courses, instructors,
                   classrooms, students, printed, chk, stats, error, docs>>

NextTopUp ==
    \/ TopUpIf
    \/ TopUpIteration
    \/ TopUpExit

\* The interpreter runs the loop: a step that can be taken is taken.
SpecTopUp == InitTopUp /\ [][NextTopUp]_vars /\ WF_vars(NextTopUp)

\* The availability the loop ends with is the availability of the record that
\* generate_instructors builds for the same instructor.
TopUpAgrees ==
    pc = "top_up_done" =>
        \E r \in { GenerateInstructors(frame.i + 1, courses, SeedState(seedOf[1])).value } :
           /\ frame.availability = r[frame.i + 1].availability
           /\ instructors = SubSeq(r, 1, frame.i)

\* What an iteration of the top-up loop appends: the 20 periods 0..19 of one day.
IsFullDayOf(slots, day) ==
    /\ Len(slots) = 20
    /\ \A k \in 1..20 : slots[k] = [day |-> day, period_index |-> k - 1]

\* C16: the top-up loop of an instructor terminates; each of its iterations
\* appends exactly the 20 periods 0..19 of one weekday that the availability
\* did not have yet; and when the loop (or the test before it) is left, the
\* availability has at least max(3 * required_periods, 30) periods, with
\* required_periods twice the weekly hours of the instructor's courses, or it
\* covers all five weekdays.
C16_TopUpLoop ==
    /\ <>(pc = "top_up_done")
    /\ [][(pc = "top_up_while" /\ pc' = "top_up_while") =>
             /\ Len(frame'.availability) = Len(frame.availability) + 20
             /\ SubSeq(frame'.availability, 1, Len(frame.availability)) = frame.availability
             /\ \E day \in AllWeekdays \ DaysCovered(frame.availability) :
                   IsFullDayOf(SubSeq(frame'.availability, Len(frame.availability) + 1,
                                      Len(frame'.availability)), day)]_vars
    /\ [](pc = "top_up_done" =>
             \/ Len(frame.availability) >=
                   (IF 3 * LoadOf(courses, frame.inst_id) >= 30
                    THEN 3 * LoadOf(courses, frame.inst_id) ELSE 30)
             \/ DaysCovered(frame.availability) = AllWeekdays)

\* C16 witness: the loop has been left after an iteration (four days were
\* sampled, five are covered) with the periods it needed.
C16_Witness ==
    /\ pc = "top_up_done"
    /\ Len(frame.available_days) = 4
    /\ DaysCovered(frame.availability) = AllWeekdays
    /\ Len(frame.availability) >= 3 * LoadOf(courses, frame.inst_id)
    /\ 3 * LoadOf(courses, frame.inst_id) > 30

\* The loop has been left short of the periods it needed: no weekday was left.
C16_Shortfall ==
    /\ pc = "top_up_done"
    /\ Len(frame.availability) < 3 * LoadOf(courses, frame.inst_id)

PeriodsOn(availability, day) ==
    { availability[k].period_index : k \in { j \in 1..Len(availability) : availability[j].day = day } }

\* C17 as stated: on every weekday of a generated instructor's availability,
\* the morning window (periods 0..11) and the afternoon window (6..19) occur
\* only when the instructor has at most 2 courses, and an instructor with more
\* than 2 courses has all 20 periods 0..19.
C17_Windows ==
    \A k \in 1..Len(instructors) :
        \A day \in DaysCovered(instructors[k].availability) :
            LET periods == PeriodsOn(instructors[k].availability, day)
                assigned == CoursesOf(courses, instructors[k].id)
            IN /\ (periods = 0..11 \/ periods = 6..19) => assigned <= 2
               /\ assigned > 2 => periods = 0..19

\* C18: every course of a generated catalog has an expected_enrollment inside
\* the range of its level (100: 80..200, 200: 40..100, 300: 20..60,
\* 400: 10..30), weekly_hours of 1.5 (3 half-hours) at levels 100 and 200 and
\* of 1.5 or 3.0 (3 or 6 half-hours) at levels 300 and 400, and one of the
\* three course types.
C18_CourseRanges ==
    \A k \in 1..Len(courses) :
        LET c == courses[k]
        IN /\ \/ c.level = "100" /\ c.expected_enrollment \in 80..200 /\ c.weekly_hours = 3
              \/ c.level = "200" /\ c.expected_enrollment \in 40..100 /\ c.weekly_hours = 3
              \/ c.level = "300" /\ c.expected_enrollment \in 20..60 /\ c.weekly_hours \in {3, 6}
              \/ c.level = "400" /\ c.expected_enrollment \in 10..30 /\ c.weekly_hours \in {3, 6}
           /\ c.type \in {"full_term", "first_half_term", "second_half_term"}

\* C18 witness: a generated catalog with a course of a lower level and a
\* 3.0-hour course of an upper level.
C18_Witness ==
    /\ call.fn = "generate_complete_input"
    /\ \E k \in 1..Len(courses) : courses[k].level \in {"100", "200"}
    /\ \E k \in 1..Len(courses) : courses[k].level \in {"300", "400"} /\ courses[k].weekly_hours = 6

\* The largest expected_enrollment of a non-empty catalog.
LargestEnrollment(cs) ==
    CHOOSE m \in { cs[k].expected_enrollment : k \in 1..Len(cs) } :
        \A k \in 1..Len(cs) : cs[k].expected_enrollment <= m

\* C19: with M the largest expected_enrollment of the catalog, the interval
\* [max(120, M), max(250, M + 50)] is not empty, each of the first three rooms
\* made by generate_classrooms has its capacity in it, and every later room has
\* a capacity in [20, 250].
C19_RoomCapacities ==
    courses # <<>> =>
        LET M == LargestEnrollment(courses)
            lo == IF M >= 120 THEN M ELSE 120
            hi == IF M + 50 >= 250 THEN M + 50 ELSE 250
        IN /\ lo <= hi
           /\ \A k \in 1..Len(classrooms) :
                 IF k <= 3 THEN classrooms[k].capacity \in lo..hi
                 ELSE classrooms[k].capacity \in 20..250

\* C19 witness: four rooms made for a catalog whose largest course has more
\* than 200 students; the fourth room is smaller than 120.
C19_Witness ==
    /\ pc = "returned"
    /\ Len(classrooms) >= 4
    /\ LargestEnrollment(courses) > 200
    /\ classrooms[4].capacity < 120

-----------------------------------------------------------------------------
(* generate_students followed through the picks of its first student, one     *)
(* iteration of the inner loop a step.                                        *)

InitPicks ==
    \E seed \in 0..MaxSeed, n \in 0..MaxLoadCourses :
       /\ InitCall("generate_students", "student_begin", seed)
       /\ args = [NoArgs EXCEPT !.num_courses = n, !.num_students = 1]
       /\ courses = InputCatalog(n, 0, 1, 50)
       /\ instructors = <<>>
       /\ classrooms = <<>>
       /\ students = <<>>
       /\ frame = NoFrame

\* The year, the number of courses to take, the level weights, the empty
\* enrollment and the copy of the catalog (lines 361-386).
StudentBegin ==
    /\ pc = "student_begin"
    /\ LET year == Choices(rng, STUDENT_YEAR_NAMES, STUDENT_YEAR_WEIGHTS)
           num_courses_to_take == Choice(year.rng, CourseCountChoices(year.value))
       IN /\ frame' = [loop |-> "picks",
                       i |-> 0,
                       year |-> year.value,
                       num_courses_to_take |-> num_courses_to_take.value,
                       level_probs |-> LevelProbs(year.value),
                       iterations |-> 0,
                       enrolled_courses |-> <<>>,
                       available_courses |-> courses,
                       level |-> "none",
                       before |-> <<>>,
                       course |-> [id |-> "none", level |-> "none"]]
          /\ rng' = num_courses_to_take.rng
    /\ pc' = "picks"
    /\ UNCHANGED <<clock, seedOf, lastOp, call, args, courses, instructors, classrooms,
                   students, printed, chk, stats, error, docs>>

\* One iteration of the inner loop (lines 388-408): the level is drawn, the
\* candidates are filtered, one is chosen, enrolled and removed.  `before`
\* keeps the pool the iteration started with.
Pick ==
    /\ pc = "picks"
    /\ frame.iterations < frame.num_courses_to_take
    /\ frame.available_courses # <<>>
    /\ LET level == Choices(rng, LEVELS, frame.level_probs)
           candidates == Candidates(frame.available_courses, level.value)
           course == Choice(level.rng, candidates)
       IN /\ frame' = [frame EXCEPT
                          !.iterations = frame.iterations + 1,
                          !.level = level.value,
                          !.before = frame.available_courses,
                          !.course = course.value,
                          !.enrolled_courses = Append(frame.enrolled_courses, course.value.id),
                          !.available_courses = AfterPick(frame.available_courses, course.value)]
          /\ rng' = course.rng
    /\ UNCHANGED <<clock, seedOf, lastOp, pc, call, args, courses, instructors, classrooms,
                   students, printed, chk, stats, error, docs>>

\* The inner loop is left (the range is exhausted, or the pool is empty and the
\* loop breaks); the student is appended and, being the only one, returned.
PicksEnd ==
    /\ pc = "picks"
    /\ frame.iterations >= frame.num_courses_to_take \/ frame.available_courses = <<>>
    /\ LET name == Choice(rng, StudentNames)
       IN /\ students' = Append(students,
                           [id |-> StudentId(frame.i),
                            name |-> name.value \o " " \o ToDecimal(frame.i),
                            year |-> frame.year,
                            enrolled_course_ids |-> frame.enrolled_courses])
          /\ rng' = name.rng
    /\ pc' = "returned"
    /\ UNCHANGED <<frame, clock, seedOf, lastOp, call, args, courses, instructors,
                   classrooms, printed, chk, stats, error, docs>>

NextPicks ==
    \/ StudentBegin
    \/ Pick
    \/ PicksEnd

SpecPicks == InitPicks /\ [][NextPicks]_vars

\* The student and the generator state the steps end with are those of
\* generate_students(1, courses).
PicksAgree ==
    pc = "returned" =>
        LET r == GenerateStudents(1, courses, SeedState(seedOf[1]))
        IN students = r.value /\ rng = r.rng

\* The levels whose weight is 0 in the level preferences of a year.
ZeroWeightLevels(year) ==
    CASE year = "freshman"  -> {"300", "400"}
      [] year = "sophomore" -> {"400"}
      [] year = "junior"    -> {}
      [] year = "senior"    -> {"100"}
      [] OTHER              -> {"100", "200"}

LevelsIn(pool) == { pool[k].level : k \in 1..Len(pool) }

\* C20: after every pick of a student, the pool the pick started with held
\* exactly the courses of the catalog not yet chosen by the student; the
\* course picked is one of them; it has the drawn level whenever the pool held
\* a course of that level; hence it has a level of weight 0 for the student's
\* year only when the pool held no course of the drawn level.
C20_LevelPicks ==
    (frame.loop = "picks" /\ frame.iterations > 0) =>
        LET chosen_before == SubSeq(frame.enrolled_courses, 1, frame.iterations - 1)
        IN /\ frame.before =
                 SelectSeq(courses, LAMBDA c : \A j \in 1..Len(chosen_before) : chosen_before[j] # c.id)
           /\ \E k \in 1..Len(frame.before) : frame.before[k] = frame.course
           /\ frame.enrolled_courses[frame.iterations] = frame.course.id
           /\ frame.level \in LevelsIn(frame.before) => frame.course.level = frame.level
           /\ frame.course.level \in ZeroWeightLevels(frame.year) =>
                 frame.level \notin LevelsIn(frame.before)

\* C20 witness: a pick has taken a course of a level of weight 0 for the
\* student's year while courses of other levels remained, after an earlier pick
\* of the drawn level.
C20_Witness ==
    /\ frame.loop = "picks"
    /\ frame.iterations > 1
    /\ frame.course.level \in ZeroWeightLevels(frame.year)
    /\ frame.level \notin LevelsIn(frame.before)
    /\ Cardinality(LevelsIn(frame.before)) > 1

\* A pick has taken a course of the drawn level out of a pool that also held
\* courses of other levels.
C20_LevelHonoured ==
    /\ frame.loop = "picks"
    /\ frame.iterations > 0
    /\ frame.course.level = frame.level
    /\ Cardinality(LevelsIn(frame.before)) > 1

IdsOf(records) == { records[k].id : k \in 1..Len(records) }

\* C21: a call of generate_students leaves the catalog it was given as it was
\* (same courses, same order), and what earlier students chose is not missing
\* from a later student's pool: every student is enrolled in courses of the
\* catalog, in at least min(2, N) of its N courses, and in all of them when
\* N <= 2.
C21_CatalogUntouched ==
    [][pc = "students" =>
          /\ courses' = courses
          /\ \A k \in 1..Len(students') :
                LET enrolled == { students'[k].enrolled_course_ids[j] :
                                     j \in 1..Len(students'[k].enrolled_course_ids) }
                IN /\ enrolled \subseteq IdsOf(courses)
                   /\ Cardinality(enrolled) >= Min2(2, Len(courses))
                   /\ Len(courses) <= 2 => enrolled = IdsOf(courses)]_vars

\* C21 witness: generate_students has returned two students out of a catalog
\* of two courses or more, and the second is enrolled in a course the first
\* one chose.
C21_Witness ==
    /\ call.fn = "generate_students"
    /\ pc = "returned"
    /\ Len(students) = 2
    /\ Len(courses) >= 2
    /\ \E i \in 1..Len(students[1].enrolled_course_ids),
          j \in 1..Len(students[2].enrolled_course_ids) :
          students[1].enrolled_course_ids[i] = students[2].enrolled_course_ids[j]

\* The positions of a generation run, in the order the claim gives: the four
\* collections, the verifier (its four checks and its report), the assembly
\* (the statistics and the document).
RunOrder == <<"courses", "instructors", "classrooms", "students",
              "check1", "check2", "check3", "check4", "report",
              "statistics", "assemble">>

VerifierPositions == {"check1", "check2", "check3", "check4", "report"}

Availabilities(ins) == [k \in 1..Len(ins) |-> ins[k].availability]

\* C22: a generation run moves through its positions in that order only (or
\* leaves by an exception); when the verifier is entered the four collections
\* exist with the requested sizes; each check runs once; from the verifier's
\* entry to the return the courses, the classrooms, the students and the
\* instructors' availabilities do not change; and the step that returns a
\* document (with feasibility_checked set) follows four completed checks and
\* emits the courses, classrooms and availabilities the checks ran on.
C22_RunOrder ==
    [][/\ pc' # pc =>
             \/ pc = "idle" /\ pc' = "courses"
             \/ pc = "assemble" /\ pc' = "idle"
             \/ \E k \in 1..Len(RunOrder) : pc = RunOrder[k] /\ pc' = "raised"
             \/ \E k \in 1..(Len(RunOrder) - 1) : pc = RunOrder[k] /\ pc' = RunOrder[k + 1]
       /\ (pc # "check1" /\ pc' = "check1") =>
             /\ chk.checked = 0
             /\ Len(courses') = args.num_courses
             /\ Len(instructors') = args.num_instructors
             /\ Len(classrooms') = args.num_rooms
             /\ Len(students') = args.num_students
       /\ chk'.checked # chk.checked =>
             \/ pc = "idle" /\ chk'.checked = 0
             \/ pc \in VerifierPositions /\ chk'.checked = chk.checked + 1
       /\ pc \in VerifierPositions \cup {"statistics", "assemble"} =>
             /\ courses' = courses
             /\ classrooms' = classrooms
             /\ students' = students
             /\ Availabilities(instructors') = Availabilities(instructors)
       /\ (pc = "assemble" /\ pc' = "idle") =>
             LET d == docs'[Len(docs')].doc
             IN /\ d.metadata.feasibility_checked
                /\ chk.checked = 4
                /\ d.courses = courses
                /\ d.classrooms = classrooms
                /\ d.students = students
                /\ Availabilities(d.instructors) = Availabilities(instructors)
                /\ \A r \in 1..Len(d.classrooms) : d.classrooms[r].capacity <= chk.max_room_capacity
      ]_vars

\* C22 witness: a document has been returned after the four checks ran on its
\* two instructors and its rooms, the largest of which Check 1 recorded.
C22_Witness ==
    /\ pc = "idle"
    /\ chk.checked = 4
    /\ \E k \in 1..Len(docs) :
          /\ docs[k].doc.metadata.feasibility_checked
          /\ Len(docs[k].doc.instructors) = 2
          /\ \E r \in 1..Len(docs[k].doc.classrooms) :
                docs[k].doc.classrooms[r].capacity = chk.max_room_capacity

-----------------------------------------------------------------------------
(* Generation runs of up to MaxLoadCourses courses, for the seeds up to MaxSeed *)
(* and two more: with seed 4571 five courses of 3.0 h come to one instructor   *)
(* who is available for 92 periods, and with seed 2462 six courses of 16.5 h   *)
(* together come to one instructor who is available for 96.                    *)

LoadedSeeds == {2462, 4571}

LoadedArgs ==
    [num_courses : 1..MaxLoadCourses, num_instructors : 1..MaxInstructors,
     num_rooms : {1}, num_students : {1}, num_weeks : Weeks]

NextLoaded ==
    \/ \E seed \in (0..MaxSeed) \cup LoadedSeeds : Construct(1, seed)
    \/ \E a \in LoadedArgs : docs = <<>> /\ StartGenerate(1, a)
    \/ StepCourses
    \/ StepInstructors
    \/ StepClassrooms
    \/ StepStudents
    \/ StepCheck1
    \/ StepCheck2
    \/ StepCheck3
    \/ StepCheck4
    \/ StepReport
    \/ StepStatistics
    \/ StepAssemble

SpecLoaded == Init /\ [][NextLoaded]_vars

\* C23: in a generation run with num_courses <= 5 * num_instructors, every
\* generated instructor has an availability (slots * 0.5 h) of at least 3 times
\* the hours of their courses (slots >= 3 * half-hours), and Check 2, once it
\* has run, has recorded no warning.
C23_NoShortfallUpToFive ==
    (args.num_courses <= 5 * args.num_instructors /\ pc # "instructors") =>
        /\ \A k \in 1..Len(instructors) :
              Len(instructors[k].availability) >= 3 * LoadOf(courses, instructors[k].id)
        /\ chk.checked >= 2 => IssuesOf(2) = {}

\* C23 witness: Check 2 has run without a warning on an instructor with five
\* 3.0-hour courses (15 h, 90 slots needed) who has fewer than 100 slots.
C23_Witness ==
    /\ chk.checked >= 2
    /\ IssuesOf(2) = {}
    /\ \E k \in 1..Len(instructors) :
          /\ CoursesOf(courses, instructors[k].id) = 5
          /\ LoadOf(courses, instructors[k].id) = 30
          /\ Len(instructors[k].availability) < 100

\* With six courses on one instructor the shortfall happens and Check 2 warns.
C23_ShortfallAtSix ==
    /\ chk.checked >= 2
    /\ IssuesOf(2) # {}
    /\ \E k \in 1..Len(instructors) : CoursesOf(courses, instructors[k].id) = 6

\* C24: once Check 3 has run (every course names an instructor of the list, or
\* Check 2 raised), the global-ratio warning is recorded only if Check 2
\* recorded a warning for at least one instructor.
C24_GlobalImpliesLocal ==
    chk.checked >= 3 => (IssuesOf(3) # {} => IssuesOf(2) # {})

\* C24 witness: Check 3 has run on two instructors with courses, one short of
\* availability (a Check 2 warning) and one not, and recorded no warning.
C24_Witness ==
    /\ chk.checked >= 3
    /\ IssuesOf(3) = {}
    /\ Len(instructors) = 2
    /\ \A k \in 1..2 : CoursesOf(courses, instructors[k].id) >= 1
    /\ Cardinality(IssuesOf(2)) = 1

\* Check 3 has recorded its warning, together with a warning of Check 2.
C24_BothWarn ==
    /\ chk.checked >= 3
    /\ IssuesOf(3) # {}
    /\ IssuesOf(2) # {}

\* C25: the availability an instructor ends with has no (day, period_index)
\* pair twice, only days Mon..Fri and periods 0..19, and between 48 and 100
\* slots; the windows drawn before the top-up already give 48 slots or more,
\* so the top-up loop is entered only when 3 * required_periods exceeds the
\* floor of 30.
C25_AvailabilityIsASet ==
    /\ frame.loop = "top_up" => Len(frame.availability) >= 48
    /\ pc = "top_up_while" => 3 * LoadOf(courses, frame.inst_id) > 30
    /\ pc = "top_up_done" =>
          /\ NoDuplicates(frame.availability)
          /\ Len(frame.availability) \in 48..100
          /\ \A k \in 1..Len(frame.availability) :
                /\ frame.availability[k].day \in AllWeekdays
                /\ frame.availability[k].period_index \in 0..19

\* C25 witness: an instructor has ended with a day of fewer than 20 periods
\* among the sampled days and a fifth day added by the top-up.
C25_Witness ==
    /\ pc = "top_up_done"
    /\ Len(frame.available_days) = 4
    /\ DaysCovered(frame.availability) = AllWeekdays
    /\ \E day \in AllWeekdays : Cardinality(PeriodsOn(frame.availability, day)) < 20

\* The records of a list that carry a given id.
WithId(records, id) == { k \in 1..Len(records) : records[k].id = id }

\* C26: in every returned document each course's instructor_id is the id of
\* exactly one instructor of the document, and each id of a student's
\* enrolled_course_ids is the id of exactly one course of the document.
C26_ReferentiallyClosed ==
    \A k \in 1..Len(docs) :
        LET d == docs[k].doc
        IN /\ \A c \in 1..Len(d.courses) :
                 Cardinality(WithId(d.instructors, d.courses[c].instructor_id)) = 1
           /\ \A s \in 1..Len(d.students) :
                 \A j \in 1..Len(d.students[s].enrolled_course_ids) :
                    Cardinality(WithId(d.courses, d.students[s].enrolled_course_ids[j])) = 1

\* C26 witness: a returned document whose three courses go to two instructors
\* and whose students are enrolled in all three.
C26_Witness ==
    \E k \in 1..Len(docs) :
        LET d == docs[k].doc
        IN /\ Len(d.courses) = 3
           /\ Len(d.instructors) = 2
           /\ d.courses[1].instructor_id = d.courses[3].instructor_id
           /\ d.courses[1].instructor_id # d.courses[2].instructor_id
           /\ \E s \in 1..Len(d.students) : Len(d.students[s].enrolled_course_ids) = 3

=============================================================================
